---- MODULE Spec2Model ----
(***************************************************************************)
(* Reconciliation engine of the Filevine dashboard server: the per-record  *)
(* pass load_project (snapshot read, upstream fetch, diff, transactional   *)
(* multi-table upsert) of filevine_loader_withTimeStamp.py, and the        *)
(* authenticated GET helper fetch_json.                                    *)
(***************************************************************************)
EXTENDS Integers, Sequences, FiniteSets, TLC

(***************************************************************************)
(* Bounds of the model.                                                    *)
(***************************************************************************)
MaxClock == 2
MaxUpstreamChanges == 2
MaxResponses == 3

\* the record identifiers of the store
Pids == {1, 2}
\* the identifiers the caller hands to load_project; the other records of
\* the store are not touched by the run
Batch == {1}

(***************************************************************************)
(* Python / SQL values.  Every value is a record [k, s, n]: k is the kind, *)
(* s the text of a str / date / datetime, n the number (amounts are kept   *)
(* in thousandths so that NUMERIC(14,2) rounding is visible).              *)
(*   none     None / SQL NULL                                              *)
(*   missing  a key that the JSON object does not have                     *)
(*   str      Python str / TEXT                                            *)
(*   float    Python float                                                 *)
(*   int      Python int / INTEGER / BIGINT                                *)
(*   dec      decimal.Decimal with two decimal digits (NUMERIC(14,2))      *)
(*   date     datetime.date (DATE)                                         *)
(*   dt       datetime.datetime; n = 1 when timezone-aware                 *)
(*   error    an exception raised while computing the value               *)
(***************************************************************************)
None == [k |-> "none", s |-> "", n |-> 0]
Missing == [k |-> "missing", s |-> "", n |-> 0]
Str(x) == [k |-> "str", s |-> x, n |-> 0]
Float(x) == [k |-> "float", s |-> "", n |-> x]
IntV(x) == [k |-> "int", s |-> "", n |-> x]
Dec(x) == [k |-> "dec", s |-> "", n |-> x]
DateV(x) == [k |-> "date", s |-> x, n |-> 0]
DateTime(x, aware) == [k |-> "dt", s |-> x, n |-> aware]
Error(x) == [k |-> "error", s |-> x, n |-> 0]
NA == Str("N/A")

\* dict.get(key): a missing key reads as None
Get(v) == IF v.k = "missing" THEN None ELSE v
\* dict.get(key, default)
GetOr(v, default) == IF v.k = "missing" THEN default ELSE v

\* Python truthiness
Truthy(v) ==
  CASE v.k \in {"none", "missing"} -> FALSE
    [] v.k = "str" -> v.s # ""
    [] v.k \in {"float", "int", "dec"} -> v.n # 0
    [] OTHER -> TRUE

\* x or y
Or(v, w) == IF Truthy(v) THEN v ELSE w

Pad2(x) == IF x < 10 THEN "0" \o ToString(x) ELSE ToString(x)
Pad3(x) == IF x < 10 THEN "00" \o ToString(x)
           ELSE IF x < 100 THEN "0" \o ToString(x) ELSE ToString(x)

\* repr of a non-negative float given in thousandths: shortest form, at
\* least one decimal digit (5.0, 5.5, 5.25, 5.005)
FloatText(x) ==
  LET whole == x \div 1000
      frac == x % 1000
  IN ToString(whole) \o "." \o
     (IF frac % 100 = 0 THEN ToString(frac \div 100)
      ELSE IF frac % 10 = 0 THEN Pad2(frac \div 10)
      ELSE Pad3(frac))

\* str of a Decimal with exponent -2 (5.00, 5.50, 5.25)
DecText(x) == ToString(x \div 1000) \o "." \o Pad2((x % 1000) \div 10)

\* str(v)
PyStr(v) ==
  CASE v.k \in {"none", "missing"} -> "None"
    [] v.k = "str" -> v.s
    [] v.k = "float" -> FloatText(v.n)
    [] v.k = "int" -> ToString(v.n)
    [] v.k = "dec" -> DecText(v.n)
    [] v.k = "date" -> v.s
    [] v.k = "dt" -> IF v.n = 1 THEN v.s \o "+00:00" ELSE v.s
    [] OTHER -> v.s

\* float(v): float of a number, or of a str that spells one
NumberTexts == {"0", "1000", "2500", "19970", "19970.004", "19970.005"}
TextNumber(s) ==
  CASE s = "0" -> 0
    [] s = "1000" -> 1000000
    [] s = "19970" -> 19970000
    [] s = "19970.004" -> 19970004
    [] s = "19970.005" -> 19970005
    [] OTHER -> 2500000
ToFloat(v) ==
  CASE v.k \in {"float", "int", "dec"} ->
         Float(IF v.k = "int" THEN v.n * 1000 ELSE v.n)
    [] v.k = "str" /\ v.s \in NumberTexts -> Float(TextNumber(v.s))
    [] v.k = "str" /\ v.s = "NaN" -> [k |-> "float", s |-> "nan", n |-> 0]
    [] v.k = "str" -> Error("ValueError")
    [] OTHER -> Error("TypeError")

(***************************************************************************)
(* Calendar dates and their two text forms.                                *)
(***************************************************************************)
Dates == {[y |-> 2024, m |-> 1, d |-> 5], [y |-> 2023, m |-> 11, d |-> 20]}
NoDate == [y |-> 0, m |-> 0, d |-> 0]
IsoText(dt) == ToString(dt.y) \o "-" \o Pad2(dt.m) \o "-" \o Pad2(dt.d)
MdyText(dt) == Pad2(dt.m) \o "-" \o Pad2(dt.d) \o "-" \o ToString(dt.y)
\* the upstream API sends dates as ISO date-times
UpstreamText(dt) == IsoText(dt) \o "T00:00:00Z"

\* datetime.fromisoformat(datestr[:10]): the date spelled by the first ten
\* characters, NoDate when they spell none
ParseIsoPrefix(s) ==
  IF \E dt \in Dates : s \in {IsoText(dt), UpstreamText(dt)}
  THEN CHOOSE dt \in Dates : s \in {IsoText(dt), UpstreamText(dt)}
  ELSE NoDate

\* s.split("-") into month, day, year
ParseMdy(s) ==
  IF \E dt \in Dates : s = MdyText(dt)
  THEN CHOOSE dt \in Dates : s = MdyText(dt)
  ELSE NoDate

\* the three parts of s.split("-") when s has exactly two dashes and is not
\* a MM-DD-YYYY date: an ISO date read as month-day-year
SplitsInThree(s) == \E dt \in Dates : s = IsoText(dt)

mmddyyyy_to_iso(v) ==
  IF ~Truthy(v) \/ v = NA THEN None
  ELSE IF v.k # "str" THEN Error("AttributeError")
  ELSE IF ParseMdy(v.s) # NoDate THEN Str(IsoText(ParseMdy(v.s)))
  ELSE IF SplitsInThree(v.s)
       THEN LET dt == CHOOSE x \in Dates : v.s = IsoText(x)
            IN Str(Pad2(dt.d) \o "-" \o ToString(dt.y) \o "-" \o Pad2(dt.m))
  ELSE Error("ValueError")

format_date(v) ==
  IF ~Truthy(v) THEN NA
  ELSE IF v.k = "str" /\ ParseIsoPrefix(v.s) # NoDate
       THEN Str(MdyText(ParseIsoPrefix(v.s)))
  ELSE v

(***************************************************************************)
(* The seven tables, their columns and column types (DDL).                 *)
(***************************************************************************)
Tables == {"projects", "contacts", "negotiation", "insurance_info",
           "breakdown_info", "lit_case_review", "demand_info"}
ChildTables == Tables \ {"projects"}

Columns(t) ==
  CASE t = "projects" ->
         {"project_id", "project_name", "phase_name", "incident_date",
          "sol_due_date", "total_meds", "policy_limits",
          "personal_injury_type", "liability_decision", "last_offer",
          "date_of_incident", "client_contact_count",
          "latest_client_contact", "project_type_code", "last_updated"}
    [] t = "negotiation" ->
         {"project_id", "negotiator", "settlement_date", "settled",
          "settled_amount", "last_offer", "last_offer_date",
          "date_assigned_to_nego", "last_updated"}
    [] t = "insurance_info" ->
         {"project_id", "defendant_insurance_name", "client_insurance_name",
          "last_updated"}
    [] t = "breakdown_info" ->
         {"project_id", "lien_negotiator_name", "lien_negotiator_company",
          "lien_negotiator_title", "lien_negotiator_dept", "date_assigned",
          "date_completed", "last_updated"}
    [] t = "lit_case_review" ->
         {"project_id", "trial_date", "date_complaint_filed",
          "date_attorney_assigned", "settlement_amount", "settlement_date",
          "dismissal_filed_on", "last_updated"}
    [] t = "contacts" ->
         {"project_id", "case_manager", "supervisor", "attorney",
          "paralegal", "last_updated"}
    [] OTHER ->
         {"project_id", "demand_approved", "approved_by", "last_updated"}

DateColumns == {"incident_date", "sol_due_date", "date_of_incident",
                "settlement_date", "last_offer_date", "date_assigned_to_nego",
                "date_assigned", "date_completed", "trial_date",
                "date_complaint_filed", "date_attorney_assigned",
                "dismissal_filed_on", "demand_approved"}

ColType(t, c) ==
  CASE c = "project_id" -> "bigint"
    [] c = "last_updated" -> "timestamp"
    [] c = "latest_client_contact" -> "timestamp"
    [] c = "client_contact_count" -> "integer"
    [] c \in {"total_meds", "settled_amount"} -> "numeric"
    [] c \in DateColumns -> "date"
    [] OTHER -> "text"

\* a row that does not exist reads as the empty dict
NoRow == [c \in {} |-> None]

\* NUMERIC(14,2) keeps two decimal digits, rounding half away from zero
RoundCents(x) == ((x + 5) \div 10) * 10

\* what a column of the given type holds, and gives back on SELECT, after
\* the value v was bound to it
Coerce(type, v) ==
  CASE v.k = "error" -> v
    [] v.k \in {"none", "missing"} -> None
    [] type = "text" -> Str(PyStr(v))
    [] type = "date" ->
         IF v.k = "date" THEN v
         ELSE IF v.k = "str" /\ \E dt \in Dates : v.s = IsoText(dt)
              THEN DateV(v.s)
         ELSE Error("DataError")
    [] type = "numeric" ->
         IF v.k \in {"float", "dec"} THEN Dec(RoundCents(v.n))
         ELSE IF v.k = "int" THEN Dec(v.n * 1000)
         ELSE Error("DataError")
    [] type \in {"integer", "bigint"} ->
         IF v.k = "int" THEN v ELSE Error("DataError")
    [] OTHER ->
         IF v.k = "dt" THEN DateTime(v.s, 0) ELSE Error("DataError")

(***************************************************************************)
(* Upstream payload of one record: the raw JSON values the endpoints       *)
(* return for it.                                                          *)
(***************************************************************************)
D1 == CHOOSE dt \in Dates : dt.y = 2024
D2 == CHOOSE dt \in Dates : dt.y = 2023

\* a record every field of which is set
BasePayload ==
  [name |-> Str("Doe v. Roe"), phaseName |-> Str("Nego"),
   incidentDate |-> Str(UpstreamText(D1)), projectTypeCode |-> Str("LOJE 2.0"),
   totalMeds |-> Float(5250), policyLimits |-> Str("25/50"),
   personalInjuryType |-> Str("MVA"), liabilityDecision |-> Str("Accepted"),
   vitalLastOffer |-> Str("10000"),
   solDateValue |-> Str(UpstreamText(D2)),
   incidentDate_1 |-> Str(UpstreamText(D1)),
   negoFullname |-> Str("Ann"), settlementDate |-> Str(UpstreamText(D1)),
   settled |-> Str("Yes"), settledAmount |-> Float(7000),
   lastOffer |-> Str("20000"), lastOfferDate |-> None,
   dateAssignedToNego |-> None,
   defendantInsurance |-> Str("Acme"), clientsInsurance |-> Str("Zenith"),
   lienFullname |-> Str("Lee"), lienCompany |-> Missing,
   lienTitle |-> Missing, lienDept |-> Missing,
   dateAssignedToBreakdown |-> None, dateCompleted |-> None,
   trialDate |-> None, dateComplainWasFiled |-> None,
   dateAttorneyWasAssigned |-> None, settlementAmount |-> Str("1000"),
   litSettlementDate |-> Str(UpstreamText(D2)), dismissalFiledOn |-> None,
   demandApproved |-> None, approvedBy |-> Missing,
   contactCount |-> IntV(0), contactLatest |-> None,
   caseManager |-> Str("Cara"), supervisor |-> Missing,
   attorney |-> Missing, paralegal |-> Missing]

\* a record for which every optional field is absent upstream
AbsentPayload ==
  [f \in DOMAIN BasePayload |->
     CASE f = "name" -> Missing
       [] f = "contactCount" -> IntV(0)
       [] BasePayload[f].k = "missing" -> Missing
       [] OTHER -> None]

\* a total that the upstream form holds as text with a currency symbol
MalformedAmount == Str("$5,000.00")

\* the fields that change upstream in this model, and the values they take
Varying ==
  [totalMeds |-> {Float(5000), Float(5250), MalformedAmount},
   settledAmount |-> {None, Float(0), Float(7000)},
   defendantInsurance |-> {Missing, Str("Acme")},
   contactCount |-> {IntV(0), IntV(1)}]

\* analyze_notes: the latest qualifying note is a timezone-aware datetime
WithContacts(u) ==
  [u EXCEPT !.contactLatest =
     IF u.contactCount.n = 0 THEN None
     ELSE DateTime("2024-01-05 10:00:00", 1)]

(***************************************************************************)
(* The helpers that turn the payload into the values load_project uses.    *)
(***************************************************************************)
\* sol_dol_meds_policy_limits: value of a non-date vital, "N/A" when the
\* vital is not in the list or its value is falsy
VitalOut(v) == Or(Get(v), NA)

\* get_case_summary_sol
get_case_summary_sol(u) ==
  IF ~Truthy(Get(u.solDateValue)) THEN NA ELSE format_date(u.solDateValue)

\* get_intake_date
get_intake_date(u) == format_date(Get(u.incidentDate_1))

\* get_nego_info
get_nego_info(u) ==
  [negotiator |-> GetOr(u.negoFullname, NA),
   settlement_date |-> format_date(Get(u.settlementDate)),
   settled |-> GetOr(u.settled, NA),
   settled_amount |-> Get(u.settledAmount),
   last_offer |-> GetOr(u.lastOffer, NA),
   last_offer_date |-> format_date(Get(u.lastOfferDate)),
   date_assigned_to_nego |-> format_date(Get(u.dateAssignedToNego))]

\* get_insurance
get_insurance(u) ==
  [def_name |-> GetOr(u.defendantInsurance, NA),
   cli_name |-> GetOr(u.clientsInsurance, NA)]

\* get_breakdown and its local fmt
BreakdownFmt(raw) ==
  IF ~Truthy(raw) \/ raw = NA THEN None
  ELSE IF raw.k = "str" /\ ParseIsoPrefix(raw.s) # NoDate
       THEN Str(MdyText(ParseIsoPrefix(raw.s)))
  ELSE None

get_breakdown(u) ==
  [lien_name |-> GetOr(u.lienFullname, NA),
   lien_company |-> GetOr(u.lienCompany, NA),
   lien_title |-> GetOr(u.lienTitle, NA),
   lien_dept |-> GetOr(u.lienDept, NA),
   date_assigned |-> BreakdownFmt(Get(u.dateAssignedToBreakdown)),
   date_completed |-> BreakdownFmt(Get(u.dateCompleted))]

\* get_lit_review (its local fmt is format_date)
get_lit_review(u) ==
  [trial_date |-> format_date(Get(u.trialDate)),
   date_complaint_filed |-> format_date(Get(u.dateComplainWasFiled)),
   date_attorney_assigned |-> format_date(Get(u.dateAttorneyWasAssigned)),
   settlement_amount |-> Or(Get(u.settlementAmount), NA),
   settlement_date |-> format_date(Get(u.litSettlementDate)),
   dismissal_filed_on |-> format_date(Get(u.dismissalFiledOn))]

\* get_demand_info
get_demand_info(u) ==
  [demand_dt |-> IF Get(u.demandApproved).k = "str"
                 THEN format_date(u.demandApproved) ELSE None,
   demand_by |-> Get(u.approvedBy)]

\* a date of new_data: mmddyyyy_to_iso(x) if x != "N/A" else None
IsoUnlessNA(x) == IF x # NA THEN mmddyyyy_to_iso(x) ELSE None

\* an amount of new_data: float(x) if x not in [None, "N/A"] else None
FloatUnlessNA(x) == IF x \notin {None, NA} THEN ToFloat(x) ELSE None

\* new_data of load_project: the new snapshot of every table
NewData(pid, u) ==
  LET nego == get_nego_info(u)
      ins == get_insurance(u)
      br == get_breakdown(u)
      lit == get_lit_review(u)
      dem == get_demand_info(u)
  IN [t \in Tables |->
      CASE t = "projects" ->
        [project_id |-> IntV(pid),
         project_name |-> GetOr(u.name, NA),
         phase_name |-> Get(u.phaseName),
         incident_date |->
           IF Truthy(Get(u.incidentDate))
           THEN mmddyyyy_to_iso(format_date(u.incidentDate)) ELSE None,
         sol_due_date |-> IsoUnlessNA(get_case_summary_sol(u)),
         total_meds |-> FloatUnlessNA(VitalOut(u.totalMeds)),
         policy_limits |-> VitalOut(u.policyLimits),
         personal_injury_type |-> VitalOut(u.personalInjuryType),
         liability_decision |-> VitalOut(u.liabilityDecision),
         last_offer |-> VitalOut(u.vitalLastOffer),
         date_of_incident |-> IsoUnlessNA(get_intake_date(u)),
         client_contact_count |-> u.contactCount,
         latest_client_contact |-> WithContacts(u).contactLatest,
         project_type_code |-> Get(u.projectTypeCode)]
      [] t = "negotiation" ->
        [project_id |-> IntV(pid),
         negotiator |-> nego.negotiator,
         settlement_date |-> IsoUnlessNA(nego.settlement_date),
         settled |-> nego.settled,
         settled_amount |-> FloatUnlessNA(nego.settled_amount),
         last_offer |-> nego.last_offer,
         last_offer_date |-> IsoUnlessNA(nego.last_offer_date),
         date_assigned_to_nego |-> IsoUnlessNA(nego.date_assigned_to_nego)]
      [] t = "insurance_info" ->
        [project_id |-> IntV(pid),
         defendant_insurance_name |-> ins.def_name,
         client_insurance_name |-> ins.cli_name]
      [] t = "breakdown_info" ->
        [project_id |-> IntV(pid),
         lien_negotiator_name |-> br.lien_name,
         lien_negotiator_company |-> br.lien_company,
         lien_negotiator_title |-> br.lien_title,
         lien_negotiator_dept |-> br.lien_dept,
         date_assigned |-> IsoUnlessNA(br.date_assigned),
         date_completed |-> IsoUnlessNA(br.date_completed)]
      [] t = "lit_case_review" ->
        [project_id |-> IntV(pid),
         trial_date |-> IsoUnlessNA(lit.trial_date),
         date_complaint_filed |-> IsoUnlessNA(lit.date_complaint_filed),
         date_attorney_assigned |-> IsoUnlessNA(lit.date_attorney_assigned),
         settlement_amount |-> lit.settlement_amount,
         settlement_date |-> IsoUnlessNA(lit.settlement_date),
         dismissal_filed_on |-> IsoUnlessNA(lit.dismissal_filed_on)]
      [] t = "demand_info" ->
        [project_id |-> IntV(pid),
         demand_approved |->
           IF Truthy(dem.demand_dt) /\ dem.demand_dt # NA
           THEN mmddyyyy_to_iso(dem.demand_dt) ELSE None,
         approved_by |-> Or(dem.demand_by, NA)]
      [] OTHER ->
        [project_id |-> IntV(pid),
         case_manager |-> GetOr(u.caseManager, NA),
         supervisor |-> GetOr(u.supervisor, NA),
         attorney |-> GetOr(u.attorney, NA),
         paralegal |-> GetOr(u.paralegal, NA)]]

\* an exception raised while new_data was built
NewDataRaises(nd) ==
  \E t \in Tables : \E c \in DOMAIN nd[t] : nd[t][c].k = "error"

(***************************************************************************)
(* detect_changes                                                          *)
(***************************************************************************)
IsAmountField(field) == field \in {"settled_amount", "settlement_amount"}

\* the pair (old_val, new_val) that detect_changes compares for one field
Compared(field, old_val, new_val) ==
  IF IsAmountField(field)
  THEN <<FloatUnlessNA(old_val), FloatUnlessNA(new_val)>>
  ELSE <<old_val, new_val>>

FieldChanged(field, old_val, new_val) ==
  LET p == Compared(field, old_val, new_val)
  IN PyStr(Or(p[1], Str(""))) # PyStr(Or(p[2], Str("")))

\* the fields detect_changes visits: those of the current row that the new
\* snapshot has too
ComparedFields(current, new) == DOMAIN current \cap DOMAIN new

\* changes_dict of detect_changes: field -> (old_val, new_val)
detect_changes(current, new) ==
  LET changed == {f \in ComparedFields(current, new) :
                    FieldChanged(f, current[f], new[f])}
  IN [f \in changed |-> Compared(f, current[f], new[f])]

\* float() raising inside detect_changes
DetectRaises(current, new) ==
  \E f \in ComparedFields(current, new) :
     LET p == Compared(f, current[f], new[f])
     IN p[1].k = "error" \/ p[2].k = "error"

(***************************************************************************)
(* The write: update_data and the UPSERT statements.                       *)
(***************************************************************************)
\* insertion order of new_data, the order in which update_data.update()
\* takes the tables
NewDataOrder == <<"projects", "negotiation", "insurance_info",
                  "breakdown_info", "lit_case_review", "demand_info",
                  "contacts">>

\* a write block that executes the child statements before the parent's
ChildFirstOrder == <<"negotiation", "insurance_info", "breakdown_info",
                     "lit_case_review", "demand_info", "contacts",
                     "projects">>

\* the order of the conn.execute calls of the write block
StatementOrder == <<"projects", "negotiation", "insurance_info",
                    "breakdown_info", "lit_case_review", "demand_info",
                    "contacts">>

RECURSIVE MergeInto(_, _, _)
\* dict.update in sequence: a later table's key overwrites an earlier one's
MergeInto(acc, nd, i) ==
  IF i > Len(NewDataOrder) THEN acc
  ELSE MergeInto(nd[NewDataOrder[i]] @@ acc, nd, i + 1)

\* update_data of load_project
UpdateData(pid, nd, now) ==
  MergeInto([project_id |-> IntV(pid), last_updated |-> IntV(now)], nd, 1)

\* the bind parameter each UPSERT statement reads for a column
BindName(t, c) ==
  CASE t = "insurance_info" /\ c = "defendant_insurance_name" -> "def_name"
    [] t = "insurance_info" /\ c = "client_insurance_name" -> "cli_name"
    [] t = "breakdown_info" /\ c = "lien_negotiator_name" -> "lien_name"
    [] t = "breakdown_info" /\ c = "lien_negotiator_company" -> "lien_company"
    [] t = "breakdown_info" /\ c = "lien_negotiator_title" -> "lien_title"
    [] t = "breakdown_info" /\ c = "lien_negotiator_dept" -> "lien_dept"
    [] OTHER -> c

\* the columns an UPSERT statement inserts and, on conflict, overwrites:
\* every column but last_updated (the text "last_updated = NOW()" of the
\* statements stands after the terminating semicolon, outside the SET list)
UpsertColumns(t) == Columns(t) \ {"last_updated"}

\* sqlalchemy raises when a bind parameter of the statement has no value
BindError(t, params) ==
  \E c \in UpsertColumns(t) : BindName(t, c) \notin DOMAIN params

\* the row of table t after the UPSERT with these parameters: inserted with
\* last_updated DEFAULT NOW() when absent, else the SET columns overwritten
UpsertRow(t, params, existing, now) ==
  [c \in Columns(t) |->
     IF c = "last_updated"
     THEN IF existing = NoRow THEN IntV(now) ELSE existing[c]
     ELSE Coerce(ColType(t, c), params[BindName(t, c)])]

\* outcome of conn.execute(UPSERT_<t>, params) on the rows `view` of the
\* record as the transaction sees them
ExecError(t, params, view) ==
  IF BindError(t, params) THEN "StatementError"
  ELSE IF t # "projects" /\ view["projects"] = NoRow /\ view[t] = NoRow
       THEN "ForeignKeyViolation"
  ELSE IF \E c \in UpsertColumns(t) :
            Coerce(ColType(t, c), params[BindName(t, c)]).k = "error"
       THEN "DataError"
  ELSE IF t = "projects" /\ params["project_name"].k \in {"none", "missing"}
       THEN "NotNullViolation"
  ELSE "ok"

(***************************************************************************)
(* State.                                                                  *)
(***************************************************************************)
VARIABLES
  store,         \* committed rows: store[pid][table], NoRow when absent
  upstream,      \* upstream[pid]: the payload the API serves for the record
  nchanges,      \* upstream edits so far (bounded by MaxUpstreamChanges)
  clock,         \* NOW() of the database
  pc,            \* position of the running load_project, "idle" when none
  cur,           \* pid of the running pass
  current_data,  \* current_data of the pass: snapshot read from the store
  new_data,      \* new_data of the pass
  all_changes,   \* all_changes of the pass: dirty table -> changes
  txn,           \* rows written inside the open transaction, not committed
  order,         \* tables whose UPSERT was executed, in execution order
  result,        \* how the pass ended
  fault,         \* TRUE when the environment failed the pass (database
                 \* error, interrupt) rather than the code
  fetched,       \* payload the pass fetched
  pre,           \* rows of the record when the pass began
  lastPass       \* lastPass[pid]: result and payload of the last pass ended

\* one call of fetch_json(endpoint)
VARIABLES
  fpc,           \* position of the call: "headers", "get", "reauth",
                 \* "reget", "sleep", "returned"
  depth,         \* how many fetch_json calls enclose the running one
  responses,     \* status of every response so far (0: no response, the
                 \* request raised a connection error or timed out)
  retryAfter,    \* Retry-After header of the last response
  slept,         \* the time.sleep calls so far, in seconds
  auths,         \* calls of get_dynamic_headers so far
  outcome        \* "json": r.json() returned; "empty": {} returned;
                 \* otherwise the exception that leaves fetch_json

\* one call of the pagination helper get_projects_by_type(code, limit)
VARIABLES
  ppc,           \* position of the call: "headers", "request", "reheaders",
                 \* "rerequest", "items", "except", "returned"
  offset,        \* offset of the helper
  attempts,      \* attempts of the helper
  projects,      \* projects of the helper: the ids accumulated
  lastOffset,    \* offset of the last request sent, NoOffset before the first
  lastOutcome,   \* what became of the last request: "none", "page" (a
                 \* non-empty page was taken), "unauthorized", "failed"
  failed,        \* TRUE once a request of the call has failed
  backoff,       \* seconds of the last time.sleep(backoff), 0 before any
  limit,         \* the caller's limit: None or an int
  pages,         \* the server's pages, pages[k] answering the k-th offset
  returned       \* the list the helper returned

\* one call of a pure helper: the function, its arguments, its result
VARIABLES fn, args, ret

\* one run of a batch script over a list of project ids
VARIABLES
  variant,          \* the script that runs: "withTimeStamp", "old", "nego",
                    \* "incident"
  project_ids,      \* the ids the run goes through
  bpc,              \* position of the run: "first" (the loop over
                    \* project_ids), "retry", "report", "returned", "crashed"
  bi,               \* index, in the list being gone through, of the next id
  failed_projects,  \* failed_projects of the script
  retry_failed,     \* retry_failed of the script, Unbound before its assignment
  counts,           \* the counters of the script
  runs,             \* per id, what each of its passes met and how it ended
  report,           \* what the final report printed, NoReport before it
  writes            \* per id, the number of committed writes of its rows

\* two jobs of process_project for one project, each on a worker of its own
VARIABLES
  jobs,             \* per worker: position, the rows read, the snapshot fetched
  remote,           \* the upstream state of the project
  persisted,        \* the snapshot the project's rows hold
  latest            \* the snapshot of the most recent upstream fetch

loaderVars == <<store, upstream, nchanges, clock, pc, cur, current_data,
                new_data, all_changes, txn, order, result, fault, fetched,
                pre, lastPass>>

fetchVars == <<fpc, depth, responses, retryAfter, slept, auths, outcome>>

pageVars == <<ppc, offset, attempts, projects, lastOffset, lastOutcome,
              failed, backoff, limit, pages, returned>>

callVars == <<fn, args, ret>>

batchVars == <<variant, project_ids, bpc, bi, failed_projects, retry_failed,
               counts, runs, report, writes>>

workerVars == <<jobs, remote, persisted, latest>>

runVars == <<batchVars, workerVars>>

vars == <<loaderVars, fetchVars, pageVars, callVars, runVars>>

passVars == <<cur, current_data, new_data, all_changes, txn, order, result,
              fault, fetched, pre>>

NoChanges == [t \in {} |-> NoRow]
NoData == [t \in Tables |-> NoRow]

\* the rows an unconditional load of every table (the earlier load_project,
\* which upserted each table from its own values) leaves for payload u
FullLoad(pid, u) ==
  LET nd == NewData(pid, WithContacts(u))
  IN [t \in Tables |->
        [c \in Columns(t) |->
           IF c = "last_updated" THEN IntV(0)
           ELSE Coerce(ColType(t, c), nd[t][c])]]

\* the rows of the record as the open transaction sees them
TxnView(pid) ==
  [t \in Tables |-> IF pid = cur /\ t \in DOMAIN txn THEN txn[t]
                    ELSE store[pid][t]]

\* a connection that commits each statement by itself: what was executed
\* before the failure stays
KeepsPartial(st, pid, view) == [st EXCEPT ![pid] = view]

\* the committed rows after the with engine.begin() block is left by an
\* exception or the connection is lost: the transaction is rolled back and
\* none of its statements (view: the rows it had written) persists
RolledBack(st, pid, view) == st

\* the dirty tables not yet executed, in statement order
RECURSIVE NextDirty(_)
NextDirty(i) ==
  IF i > Len(StatementOrder) THEN 0
  ELSE IF StatementOrder[i] \in DOMAIN all_changes
          /\ StatementOrder[i] \notin DOMAIN txn
       THEN i
  ELSE NextDirty(i + 1)

\* no fetch_json call is followed
FetchIdle ==
  /\ fpc = "idle"
  /\ depth = 0
  /\ responses = <<>>
  /\ retryAfter = Missing
  /\ slept = <<>>
  /\ auths = 0
  /\ outcome = "none"

\* no load_project call has been made
PassIdle ==
  /\ nchanges = 0
  /\ clock = 0
  /\ pc = "idle"
  /\ cur = CHOOSE p \in Batch : TRUE
  /\ current_data = NoData
  /\ new_data = NoData
  /\ all_changes = NoChanges
  /\ txn = NoChanges
  /\ order = <<>>
  /\ result = "none"
  /\ fault = FALSE
  /\ fetched = AbsentPayload
  /\ pre = NoData
  /\ lastPass = [p \in Pids |-> [result |-> "none", payload |-> AbsentPayload]]

\* no pagination call is followed
PageIdle ==
  /\ ppc = "idle"
  /\ offset = 0
  /\ attempts = 0
  /\ projects = <<>>
  /\ lastOffset = 0
  /\ lastOutcome = "none"
  /\ failed = FALSE
  /\ backoff = 0
  /\ limit = None
  /\ pages = <<>>
  /\ returned = <<>>

\* no pure helper is called
CallIdle ==
  /\ fn = "none"
  /\ args = <<>>
  /\ ret = None

\* a name that no assignment has bound yet
Unbound == <<0 - 1>>

NoReport == [printed |-> FALSE]

\* no batch script runs
BatchIdle ==
  /\ variant = "none"
  /\ project_ids = <<>>
  /\ bpc = "idle"
  /\ bi = 0
  /\ failed_projects = <<>>
  /\ retry_failed = Unbound
  /\ counts = <<>>
  /\ runs = <<>>
  /\ report = NoReport
  /\ writes = <<>>

\* no job runs
WorkersIdle ==
  /\ jobs = <<>>
  /\ remote = 0
  /\ persisted = 0
  /\ latest = 0

RunIdle == BatchIdle /\ WorkersIdle

\* the child tables an earlier load left without a row: the earlier
\* load_project upserted demand_info only "if demand_dt or demand_by"
Gaps == {{}, {"demand_info"}}

\* the rows of a record loaded earlier, the tables of gap never written
Loaded(pid, u, gap) ==
  [t \in Tables |-> IF t \in gap THEN NoRow ELSE FullLoad(pid, u)[t]]

Init ==
  /\ FetchIdle
  /\ PageIdle
  /\ CallIdle
  /\ RunIdle
  /\ upstream \in [Pids -> {BasePayload, AbsentPayload}]
  /\ \A p \in Pids \ Batch : upstream[p] = BasePayload
  /\ \E seeded \in SUBSET Batch, gap \in Gaps :
       store = [p \in Pids |->
                  IF p \in Batch \ seeded THEN NoData
                  ELSE IF p \in seeded THEN Loaded(p, upstream[p], gap)
                  ELSE FullLoad(p, upstream[p])]
  /\ PassIdle

(***************************************************************************)
(* The environment: the upstream record changes.                           *)
(***************************************************************************)
\* Between passes only: a pass reads upstream in its fetch step alone, so a
\* change during a pass is the same change just before or after it.
UpstreamChange(pid, f, v) ==
  /\ pc = "idle"
  /\ nchanges < MaxUpstreamChanges
  /\ upstream[pid][f] # v
  /\ upstream' = [upstream EXCEPT ![pid][f] = v]
  /\ nchanges' = nchanges + 1
  /\ UNCHANGED <<store, clock, pc, passVars, lastPass>>
  /\ UNCHANGED fetchVars
  /\ UNCHANGED <<pageVars, callVars>>
  /\ UNCHANGED runVars

(***************************************************************************)
(* load_project(pid), one action per step.                                 *)
(***************************************************************************)
End(r) ==
  /\ result' = r
  /\ pc' = "done"

\* the caller invokes load_project(pid)
Begin(pid) ==
  /\ pc = "idle"
  /\ clock < MaxClock
  /\ clock' = clock + 1
  /\ pc' = "read"
  /\ cur' = pid
  /\ pre' = store[pid]
  /\ UNCHANGED <<store, upstream, nchanges, current_data, new_data,
                 all_changes, txn, order, result, fault, fetched, lastPass>>
  /\ UNCHANGED fetchVars
  /\ UNCHANGED <<pageVars, callVars>>
  /\ UNCHANGED runVars

\* with engine.connect(): SELECT * of the seven tables
ReadSnapshot ==
  /\ pc = "read"
  /\ current_data' = store[cur]
  /\ pc' = "fetch"
  /\ UNCHANGED <<store, upstream, nchanges, clock, cur, new_data, all_changes,
                 txn, order, result, fault, fetched, pre, lastPass>>
  /\ UNCHANGED fetchVars
  /\ UNCHANGED <<pageVars, callVars>>
  /\ UNCHANGED runVars

\* pj = fetch_json(...) or {}; the helper fetches; new_data.  fetch_json
\* returns {} for a failed request, and load_project then returns.
Fetch ==
  /\ pc = "fetch"
  /\ \E ok \in BOOLEAN :
       IF ~ok
       THEN /\ End("not_fetched")
            /\ UNCHANGED <<new_data, fetched>>
       ELSE LET u == WithContacts(upstream[cur])
                nd == NewData(cur, u)
            IN /\ fetched' = u
               /\ new_data' = nd
               /\ IF NewDataRaises(nd) THEN End("raised")
                  ELSE /\ pc' = "diff"
                       /\ UNCHANGED result
  /\ UNCHANGED <<store, upstream, nchanges, clock, cur, current_data,
                 all_changes, txn, order, fault, pre, lastPass>>
  /\ UNCHANGED fetchVars
  /\ UNCHANGED <<pageVars, callVars>>
  /\ UNCHANGED runVars

\* the dirty tables of the pass: table -> changes_dict
AllChanges(current, new) ==
  LET dirty == {t \in Tables : DOMAIN detect_changes(current[t], new[t]) # {}}
  IN [t \in dirty |-> detect_changes(current[t], new[t])]

\* the loop over tables with detect_changes; return when nothing changed
Diff ==
  /\ pc = "diff"
  /\ IF \E t \in Tables : DetectRaises(current_data[t], new_data[t])
     THEN /\ End("raised")
          /\ UNCHANGED all_changes
     ELSE LET ac == AllChanges(current_data, new_data)
          IN /\ all_changes' = ac
             /\ IF DOMAIN ac = {} THEN End("clean")
                ELSE /\ pc' = "txn"
                     /\ UNCHANGED result
  /\ UNCHANGED <<store, upstream, nchanges, clock, cur, current_data, new_data,
                 txn, order, fault, fetched, pre, lastPass>>
  /\ UNCHANGED fetchVars
  /\ UNCHANGED <<pageVars, callVars>>
  /\ UNCHANGED runVars

\* one conn.execute(UPSERT_<table>, update_data) inside engine.begin(); an
\* exception leaves the with block, which rolls the transaction back, and
\* load_project re-raises.  The statement text goes on after its semicolon
\* with "last_updated = NOW()": a server that parses the whole text rejects
\* it with a syntax error (parsed = FALSE), one that is handed the text up
\* to the semicolon executes the UPSERT.
Execute ==
  /\ pc = "txn"
  /\ NextDirty(1) # 0
  /\ \E parsed \in BOOLEAN :
     LET t == StatementOrder[NextDirty(1)]
         params == UpdateData(cur, new_data, clock)
         view == TxnView(cur)
     IN /\ order' = Append(order, t)
        /\ IF parsed /\ ExecError(t, params, view) = "ok"
           THEN /\ txn' = (t :> UpsertRow(t, params, view[t], clock)) @@ txn
                /\ UNCHANGED <<store, pc, result>>
           ELSE /\ txn' = NoChanges
                /\ store' = RolledBack(store, cur, view)
                /\ End("raised")
  /\ UNCHANGED <<upstream, nchanges, clock, cur, current_data, new_data,
                 all_changes, fault, fetched, pre, lastPass>>
  /\ UNCHANGED fetchVars
  /\ UNCHANGED <<pageVars, callVars>>
  /\ UNCHANGED runVars

\* leaving the with block: COMMIT
Commit ==
  /\ pc = "txn"
  /\ NextDirty(1) = 0
  /\ store' = [store EXCEPT ![cur] = TxnView(cur)]
  /\ txn' = NoChanges
  /\ End("updated")
  /\ UNCHANGED <<upstream, nchanges, clock, cur, current_data, new_data,
                 all_changes, order, fault, fetched, pre, lastPass>>
  /\ UNCHANGED fetchVars
  /\ UNCHANGED <<pageVars, callVars>>
  /\ UNCHANGED runVars

\* the database fails a statement or the commit (connection lost, the
\* statement text rejected, a constraint): the transaction is rolled back
DatabaseError ==
  /\ pc \in {"read", "txn"}
  /\ txn' = NoChanges
  /\ store' = RolledBack(store, cur, TxnView(cur))
  /\ fault' = TRUE
  /\ End("raised")
  /\ UNCHANGED <<upstream, nchanges, clock, cur, current_data, new_data,
                 all_changes, order, fetched, pre, lastPass>>
  /\ UNCHANGED fetchVars
  /\ UNCHANGED <<pageVars, callVars>>
  /\ UNCHANGED runVars

\* the process is interrupted in the middle of the pass; the connection
\* closes and the database rolls the open transaction back
Interrupt ==
  /\ pc \in {"read", "fetch", "diff", "txn"}
  /\ txn' = NoChanges
  /\ store' = RolledBack(store, cur, TxnView(cur))
  /\ fault' = TRUE
  /\ End("interrupted")
  /\ UNCHANGED <<upstream, nchanges, clock, cur, current_data, new_data,
                 all_changes, order, fetched, pre, lastPass>>
  /\ UNCHANGED fetchVars
  /\ UNCHANGED <<pageVars, callVars>>
  /\ UNCHANGED runVars

\* load_project has returned or raised; the caller goes on
Finish ==
  /\ pc = "done"
  /\ pc' = "idle"
  /\ lastPass' = [lastPass EXCEPT ![cur] =
                    [result |-> result, payload |-> fetched]]
  /\ current_data' = NoData
  /\ new_data' = NoData
  /\ all_changes' = NoChanges
  /\ order' = <<>>
  /\ result' = "none"
  /\ fault' = FALSE
  /\ fetched' = AbsentPayload
  /\ pre' = NoData
  /\ UNCHANGED <<store, upstream, nchanges, clock, cur, txn>>
  /\ UNCHANGED fetchVars
  /\ UNCHANGED <<pageVars, callVars>>
  /\ UNCHANGED runVars

Next ==
  \/ \E pid \in Batch : \E f \in DOMAIN Varying : \E v \in Varying[f] :
       UpstreamChange(pid, f, v)
  \/ \E pid \in Batch : Begin(pid)
  \/ ReadSnapshot
  \/ Fetch
  \/ Diff
  \/ Execute
  \/ Commit
  \/ DatabaseError
  \/ Interrupt
  \/ Finish

Spec == Init /\ [][Next]_vars

(***************************************************************************)
(* The earlier load_project(pid): fetch, then one write block that upserts *)
(* every table from its own values and asks upstream for the team members  *)
(* before its last statement.                                              *)
(***************************************************************************)
\* the tables upserted before the team members are asked for
OldStatements == SubSeq(StatementOrder, 1, 6)

\* if demand_dt or demand_by; the other statements always run
Applies(t, u) ==
  t = "demand_info" =>
    (Truthy(get_demand_info(u).demand_dt) \/ Truthy(get_demand_info(u).demand_by))

\* the next statement of the block, 0 when the first six are through
RECURSIVE OldNext(_)
OldNext(i) ==
  IF i > Len(OldStatements) THEN 0
  ELSE IF OldStatements[i] \notin DOMAIN txn
          /\ OldStatements[i] \notin {order[k] : k \in DOMAIN order}
       THEN i
  ELSE OldNext(i + 1)

\* get_relevant_team_members when its requests fail: fetch_json returns {}
\* and every role is "N/A"
NoTeam(u) ==
  [u EXCEPT !.caseManager = Missing, !.supervisor = Missing,
            !.attorney = Missing, !.paralegal = Missing]

\* the caller invokes load_project(pid)
OldBegin(pid) ==
  /\ pc = "idle"
  /\ clock < MaxClock
  /\ clock' = clock + 1
  /\ pc' = "fetch"
  /\ cur' = pid
  /\ pre' = store[pid]
  /\ UNCHANGED <<store, upstream, nchanges, current_data, new_data,
                 all_changes, txn, order, result, fault, fetched, lastPass>>
  /\ UNCHANGED fetchVars
  /\ UNCHANGED <<pageVars, callVars>>
  /\ UNCHANGED runVars

\* pj = fetch_json(...) or {}; the helpers; rec.  with engine.begin() opens
\* the write block
OldFetch ==
  /\ pc = "fetch"
  /\ \E ok \in BOOLEAN :
       IF ~ok
       THEN /\ End("not_fetched")
            /\ UNCHANGED fetched
       ELSE LET u == NoTeam(WithContacts(upstream[cur]))
            IN /\ fetched' = u
               /\ IF NewDataRaises(NewData(cur, u)) THEN End("raised")
                  ELSE /\ pc' = "txn"
                       /\ UNCHANGED result
  /\ UNCHANGED <<store, upstream, nchanges, clock, cur, current_data,
                 new_data, all_changes, txn, order, fault, pre, lastPass>>
  /\ UNCHANGED fetchVars
  /\ UNCHANGED <<pageVars, callVars>>
  /\ UNCHANGED runVars

\* conn.execute(UPSERT_PROJECT, rec) ... conn.execute(UPSERT_DEMAND, ...)
\* order takes every statement the block has passed, txn those it executed
OldExecute ==
  /\ pc = "txn"
  /\ OldNext(1) # 0
  /\ LET t == OldStatements[OldNext(1)]
     IN /\ order' = Append(order, t)
        /\ txn' = IF Applies(t, fetched)
                  THEN (t :> FullLoad(cur, fetched)[t]) @@ txn
                  ELSE txn
  /\ UNCHANGED <<store, upstream, nchanges, clock, pc, cur, current_data,
                 new_data, all_changes, result, fault, fetched, pre, lastPass>>
  /\ UNCHANGED fetchVars
  /\ UNCHANGED <<pageVars, callVars>>
  /\ UNCHANGED runVars

\* role_map = {... for m in get_relevant_team_members(pid)}: the requests
\* for the teams of the project and their members are sent from inside the
\* write block
OldTeamRequest ==
  /\ pc = "txn"
  /\ OldNext(1) = 0
  /\ "contacts" \notin DOMAIN txn
  /\ pc' = "members"
  /\ UNCHANGED <<store, upstream, nchanges, clock, cur, current_data,
                 new_data, all_changes, txn, order, result, fault, fetched,
                 pre, lastPass>>
  /\ UNCHANGED fetchVars
  /\ UNCHANGED <<pageVars, callVars>>
  /\ UNCHANGED runVars

\* the answers arrive (or fetch_json returns {}); conn.execute(UPSERT_CONTACTS)
OldContacts ==
  /\ pc = "members"
  /\ \E ok \in BOOLEAN :
       LET u == IF ok THEN WithContacts(upstream[cur]) ELSE fetched
       IN /\ fetched' = u
          /\ txn' = ("contacts" :> FullLoad(cur, u)["contacts"]) @@ txn
  /\ order' = Append(order, "contacts")
  /\ pc' = "txn"
  /\ UNCHANGED <<store, upstream, nchanges, clock, cur, current_data,
                 new_data, all_changes, result, fault, pre, lastPass>>
  /\ UNCHANGED fetchVars
  /\ UNCHANGED <<pageVars, callVars>>
  /\ UNCHANGED runVars

\* leaving the with block: COMMIT
OldCommit ==
  /\ pc = "txn"
  /\ "contacts" \in DOMAIN txn
  /\ store' = [store EXCEPT ![cur] = TxnView(cur)]
  /\ txn' = NoChanges
  /\ End("updated")
  /\ UNCHANGED <<upstream, nchanges, clock, cur, current_data, new_data,
                 all_changes, order, fault, fetched, pre, lastPass>>
  /\ UNCHANGED fetchVars
  /\ UNCHANGED <<pageVars, callVars>>
  /\ UNCHANGED runVars

\* the database fails a statement or the commit, or the connection is lost
\* while the block waits for upstream: the transaction is rolled back
OldDatabaseError ==
  /\ pc \in {"txn", "members"}
  /\ txn' = NoChanges
  /\ store' = RolledBack(store, cur, TxnView(cur))
  /\ fault' = TRUE
  /\ End("raised")
  /\ UNCHANGED <<upstream, nchanges, clock, cur, current_data, new_data,
                 all_changes, order, fetched, pre, lastPass>>
  /\ UNCHANGED fetchVars
  /\ UNCHANGED <<pageVars, callVars>>
  /\ UNCHANGED runVars

NextOld ==
  \/ \E pid \in Batch : \E f \in DOMAIN Varying : \E v \in Varying[f] :
       UpstreamChange(pid, f, v)
  \/ \E pid \in Batch : OldBegin(pid)
  \/ OldFetch
  \/ OldExecute
  \/ OldTeamRequest
  \/ OldContacts
  \/ OldCommit
  \/ OldDatabaseError
  \/ Finish

SpecOld == Init /\ [][NextOld]_vars

\* a request to upstream is in flight
Requesting == pc \in {"fetch", "members"}

\* C26: the phases of a pass are strictly ordered, every upstream fetch of
\* the record is over before the first write, and no upstream request is made
\* while the write transaction of the record is open
C26_NoRequestInsideTransaction ==
  Requesting => (DOMAIN txn = {} /\ order = <<>>)

(***************************************************************************)
(* fetch_json(endpoint): one authenticated GET with its handling of 401    *)
(* and 429, one action per step of the call.                               *)
(***************************************************************************)
\* the status codes the server answers with
Statuses == {200, 401, 429, 500}
\* no response: requests.get raised (connection error, timeout)
NoResponse == 0

\* the Retry-After header of a 429: absent, a number of seconds, or an
\* HTTP date
RetryAfterHeaders == {Missing, Str("1"), Str("120"),
                      Str("Fri, 06 Nov 2026 10:00:00 GMT")}

\* r.headers.get('Retry-After', 5)
DefaultRetryAfter == 5

\* int(v)
IntTexts == {"1", "120"}
ParseInt(v) ==
  CASE v.k = "int" -> v
    [] v.k = "str" /\ v.s \in IntTexts ->
         IntV(CHOOSE x \in {1, 120} : ToString(x) = v.s)
    [] v.k = "str" -> Error("ValueError")
    [] OTHER -> Error("TypeError")

\* the caller calls fetch_json
InitFetch ==
  /\ PassIdle
  /\ PageIdle
  /\ CallIdle
  /\ RunIdle
  /\ upstream = [p \in Pids |-> BasePayload]
  /\ store = [p \in Pids |-> NoData]
  /\ fpc = "headers"
  /\ depth = 0
  /\ responses = <<>>
  /\ retryAfter = Missing
  /\ slept = <<>>
  /\ auths = 0
  /\ outcome = "none"

\* fetch_json is left: by return (how = "json", "empty") or by an exception
Return(how) ==
  /\ fpc' = "returned"
  /\ outcome' = how

\* except requests.exceptions.RequestException: return {}
ReturnEmpty == Return("empty")

\* headers = get_dynamic_headers(), the first statement, outside the try:
\* a RequestException of the token request leaves this call; an enclosing
\* fetch_json call (the 429 recursion stands inside its try) catches it
GetHeaders ==
  /\ fpc = "headers"
  /\ auths' = auths + 1
  /\ \E ok \in BOOLEAN :
       IF ok THEN fpc' = "get" /\ UNCHANGED outcome
       ELSE IF depth = 0 THEN Return("RequestException")
       ELSE ReturnEmpty
  /\ UNCHANGED <<depth, responses, retryAfter, slept, loaderVars>>
  /\ UNCHANGED <<pageVars, callVars>>
  /\ UNCHANGED runVars

\* r = requests.get(...); the branch on r.status_code; r.raise_for_status();
\* return r.json()
SendRequest ==
  /\ fpc = "get"
  /\ Len(responses) < MaxResponses
  /\ \E st \in Statuses \cup {NoResponse} : \E h \in RetryAfterHeaders :
       /\ responses' = Append(responses, st)
       /\ retryAfter' = IF st = 429 THEN h ELSE Missing
       /\ st # 429 => h = Missing
       /\ CASE st = NoResponse -> ReturnEmpty
            [] st = 401 -> fpc' = "reauth" /\ UNCHANGED outcome
            [] st = 429 -> fpc' = "sleep" /\ UNCHANGED outcome
            [] st = 200 -> Return("json")
            [] OTHER -> ReturnEmpty
  /\ UNCHANGED <<depth, slept, auths, loaderVars>>
  /\ UNCHANGED <<pageVars, callVars>>
  /\ UNCHANGED runVars

\* the 401 branch: headers = get_dynamic_headers(), inside the try
ReAuth ==
  /\ fpc = "reauth"
  /\ auths' = auths + 1
  /\ \E ok \in BOOLEAN :
       IF ok THEN fpc' = "reget" /\ UNCHANGED outcome
       ELSE ReturnEmpty
  /\ UNCHANGED <<depth, responses, retryAfter, slept, loaderVars>>
  /\ UNCHANGED <<pageVars, callVars>>
  /\ UNCHANGED runVars

\* the 401 branch: r = requests.get(...) again, then r.raise_for_status()
\* and return r.json(); the status of this response is not looked at
ResendRequest ==
  /\ fpc = "reget"
  /\ Len(responses) < MaxResponses
  /\ \E st \in Statuses \cup {NoResponse} : \E h \in RetryAfterHeaders :
       /\ responses' = Append(responses, st)
       /\ retryAfter' = IF st = 429 THEN h ELSE Missing
       /\ st # 429 => h = Missing
       /\ IF st = 200 THEN Return("json") ELSE ReturnEmpty
  /\ UNCHANGED <<depth, slept, auths, loaderVars>>
  /\ UNCHANGED <<pageVars, callVars>>
  /\ UNCHANGED runVars

\* the 429 branch: retry_after = int(...); time.sleep(retry_after);
\* return fetch_json(endpoint).  A ValueError of int() is no
\* RequestException: it leaves every enclosing call
Sleep ==
  /\ fpc = "sleep"
  /\ LET retry_after == ParseInt(GetOr(retryAfter, IntV(DefaultRetryAfter)))
     IN IF retry_after.k = "error"
        THEN /\ Return(retry_after.s)
             /\ UNCHANGED <<depth, slept>>
        ELSE /\ slept' = Append(slept, retry_after.n)
             /\ depth' = depth + 1
             /\ fpc' = "headers"
             /\ UNCHANGED outcome
  /\ UNCHANGED <<responses, retryAfter, auths, loaderVars>>
  /\ UNCHANGED <<pageVars, callVars>>
  /\ UNCHANGED runVars

NextFetch ==
  \/ GetHeaders
  \/ SendRequest
  \/ ReAuth
  \/ ResendRequest
  \/ Sleep

SpecFetch == InitFetch /\ [][NextFetch]_vars

\* status of the last response of the call
LastStatus == responses[Len(responses)]

\* C9: a 401 is answered by obtaining the headers again and sending the
\* request once more; when that request is answered 401 too, fetch_json
\* ends with an error for the caller, not with a normal (empty) result.
C9_SecondUnauthorizedIsAnError ==
  (/\ fpc = "returned"
   /\ Len(responses) >= 2
   /\ LastStatus = 401
   /\ responses[Len(responses) - 1] = 401)
  => outcome \notin {"json", "empty"}

\* C10: fetch_json never returns a result, empty or not, while the last
\* response it received was a 429, whichever request the 429 answered.
C10_NoResultWhileRateLimited ==
  (fpc = "returned" /\ outcome \in {"json", "empty"} /\ responses # <<>>)
  => LastStatus # 429

(***************************************************************************)
(* get_projects_by_type(project_type_code, limit): the ids of the projects *)
(* of one type, fetched page by page.  One call is followed from its first *)
(* statement to its return.                                                *)
(***************************************************************************)
\* page_sz and max_attempts of the helper
page_sz == 100

max_attempts == 5

\* the limits a caller passes: None (everything) or a number of ids
Limits == {None, IntV(0), IntV(2), IntV(4)}

\* what the server holds: the page it answers at offset 0, at offset page_sz,
\* and so on; beyond the last one every page is empty
ServerPages ==
  { <<>>,
    <<<<11>>>>,
    <<<<11, 12>>, <<21>>>>,
    <<<<11, 12, 13>>, <<21, 22>>, <<31>>>>,
    <<<<11>>, <<21, 22>>>>,
    <<<<11>>, <<>>, <<31>>>> }

\* resp.json().get("items", []) of the request at offset off
Items(off) ==
  LET k == (off \div page_sz) + 1
  IN  IF k <= Len(pages) THEN pages[k] ELSE <<>>

\* the for loop over the items of one page: every id is appended, and the
\* loop is left as soon as the limit is reached
RECURSIVE AppendItems(_, _, _, _)
AppendItems(ps, items, i, lim) ==
  IF i > Len(items) THEN ps
  ELSE LET q == Append(ps, items[i])
       IN  IF lim # None /\ Len(q) >= lim.n THEN q
           ELSE AppendItems(q, items, i + 1, lim)

\* limit is not None and len(projects) >= limit
LimitReached(ps, lim) == lim # None /\ Len(ps) >= lim.n

\* a page that is shorter than page_sz is taken for the last one
ShortPageIsLast(items) == Len(items) < page_sz

\* not items: the page has no item
NoItems(items) == items = <<>>

\* the offset moves on by the number of items received
AdvanceByItems(off, items) == off + Len(items)

\* offset += page_sz
NextOffset(off, items) == off + page_sz

\* the failed page is skipped
SkipsFailedPage(off) == off + page_sz

\* the except branch leaves offset alone: the same page is asked for again
RetryOffset(off) == off

\* a delay that grows by addition instead of by powers
DoubledDelay(n) == 2 * n

\* backoff = 2 ** attempts
Backoff(n) == 2 ^ n

\* return projects if limit is None else projects[:limit]
Result(ps, lim) ==
  IF lim = None THEN ps ELSE SubSeq(ps, 1, IF lim.n < Len(ps) THEN lim.n ELSE Len(ps))

NoOffset == 0 - 1

InitPages ==
  /\ PassIdle
  /\ FetchIdle
  /\ CallIdle
  /\ RunIdle
  /\ upstream = [p \in Pids |-> BasePayload]
  /\ store = [p \in Pids |-> NoData]
  /\ ppc = "headers"
  /\ offset = 0
  /\ attempts = 0
  /\ projects = <<>>
  /\ lastOffset = NoOffset
  /\ lastOutcome = "none"
  /\ failed = FALSE
  /\ backoff = 0
  /\ limit \in Limits
  /\ pages \in ServerPages
  /\ returned = <<>>

\* the statements after the loop
PageReturn ==
  /\ ppc' = "returned"
  /\ returned' = Result(projects', limit)

\* headers = get_dynamic_headers() at the top of the try block: the token
\* request may fail with a RequestException
PageHeaders ==
  /\ ppc = "headers"
  /\ \E ok \in BOOLEAN :
       /\ ppc' = IF ok THEN "request" ELSE "except"
       /\ failed' = (failed \/ ~ok)
  /\ UNCHANGED <<offset, attempts, projects, lastOffset, lastOutcome, backoff,
                 limit, pages, returned>>
  /\ UNCHANGED <<loaderVars, fetchVars, callVars>>
  /\ UNCHANGED runVars

\* resp = requests.get(..., params offset, limit=page_sz): the request fails
\* in transport, or is answered 401, or another error status, or 200
PageRequest ==
  /\ ppc = "request"
  /\ lastOffset' = offset
  /\ \E answer \in {"transport", "unauthorized", "error", "ok"} :
       /\ ppc' = CASE answer = "ok" -> "items"
                   [] answer = "unauthorized" -> "reheaders"
                   [] OTHER -> "except"
       /\ lastOutcome' = CASE answer = "ok" -> "ok"
                           [] answer = "unauthorized" -> "unauthorized"
                           [] OTHER -> "failed"
       /\ failed' = (failed \/ answer \in {"transport", "error"})
  /\ UNCHANGED <<offset, attempts, projects, backoff, limit, pages, returned>>
  /\ UNCHANGED <<loaderVars, fetchVars, callVars>>
  /\ UNCHANGED runVars

\* if resp.status_code == 401: headers = get_dynamic_headers()
PageReHeaders ==
  /\ ppc = "reheaders"
  /\ \E ok \in BOOLEAN :
       /\ ppc' = IF ok THEN "rerequest" ELSE "except"
       /\ failed' = (failed \/ ~ok)
       /\ lastOutcome' = IF ok THEN lastOutcome ELSE "failed"
  /\ UNCHANGED <<offset, attempts, projects, lastOffset, backoff, limit,
                 pages, returned>>
  /\ UNCHANGED <<loaderVars, fetchVars, callVars>>
  /\ UNCHANGED runVars

\* the second requests.get of the 401 branch, then resp.raise_for_status():
\* a second 401 is an HTTPError like any other error status
PageReRequest ==
  /\ ppc = "rerequest"
  /\ lastOffset' = offset
  /\ \E answer \in {"transport", "unauthorized", "error", "ok"} :
       /\ ppc' = IF answer = "ok" THEN "items" ELSE "except"
       /\ lastOutcome' = IF answer = "ok" THEN "ok" ELSE "failed"
       /\ failed' = (failed \/ answer # "ok")
  /\ UNCHANGED <<offset, attempts, projects, backoff, limit, pages, returned>>
  /\ UNCHANGED <<loaderVars, fetchVars, callVars>>
  /\ UNCHANGED runVars

\* items = resp.json().get("items", []) down to attempts = 0
PageItems ==
  /\ ppc = "items"
  /\ LET items == Items(offset)
     IN  IF NoItems(items)
         THEN /\ lastOutcome' = "empty"
              /\ UNCHANGED <<projects, offset, attempts>>
              /\ PageReturn
         ELSE /\ projects' = AppendItems(projects, items, 1, limit)
              /\ lastOutcome' = "page"
              /\ IF LimitReached(projects', limit)
                 THEN /\ UNCHANGED <<offset, attempts>>
                      /\ PageReturn
                 ELSE /\ offset' = NextOffset(offset, items)
                      /\ attempts' = 0
                      /\ ppc' = "headers"
                      /\ UNCHANGED returned
  /\ UNCHANGED <<lastOffset, failed, backoff, limit, pages>>
  /\ UNCHANGED <<loaderVars, fetchVars, callVars>>
  /\ UNCHANGED runVars

\* except requests.exceptions.RequestException
PageExcept ==
  /\ ppc = "except"
  /\ attempts' = attempts + 1
  /\ offset' = RetryOffset(offset)
  /\ UNCHANGED projects
  /\ IF attempts' >= max_attempts
     THEN /\ PageReturn
          /\ UNCHANGED backoff
     ELSE /\ backoff' = Backoff(attempts')
          /\ ppc' = "headers"
          /\ UNCHANGED returned
  /\ UNCHANGED <<lastOffset, lastOutcome, failed, limit, pages>>
  /\ UNCHANGED <<loaderVars, fetchVars, callVars>>
  /\ UNCHANGED runVars

NextPages ==
  \/ PageHeaders
  \/ PageRequest
  \/ PageReHeaders
  \/ PageReRequest
  \/ PageItems
  \/ PageExcept

SpecPages == InitPages /\ [][NextPages]_vars

\* the statements of the helper run one after the other: a call that can
\* take a step takes it
SpecPagesLive == SpecPages /\ WF_vars(NextPages)

(***************************************************************************)
(* Properties of the pagination helper.                                    *)
(***************************************************************************)
\* the items of the first n pages of the server, in order
RECURSIVE FirstPages(_)
FirstPages(n) == IF n = 0 THEN <<>> ELSE FirstPages(n - 1) \o pages[n]

\* the items of the pages fetched before the page at offset off
FetchedBefore(off) ==
  LET n == off \div page_sz
  IN  FirstPages(IF n < Len(pages) THEN n ELSE Len(pages))

\* the server's pages are non-empty and each is shorter than the one before
DecreasingPages ==
  /\ \A k \in 1..Len(pages) : pages[k] # <<>>
  /\ \A k \in 1..(Len(pages) - 1) : Len(pages[k + 1]) < Len(pages[k])

\* min(60, 2 ** attempts)
Capped(n) == IF 2 ^ n > 60 THEN 60 ELSE 2 ^ n

\* C27: the delay before retry k of a failed page request is min(60, 2^k)
\* with k the failures on the current offset, no delay exceeds 60 seconds,
\* the failure counter is 0 again after every fetched page, and the helper
\* gives up only on the fifth consecutive failure
C27_BackoffCappedAndReset ==
  /\ [](backoff <= 60)
  /\ [][/\ ((ppc = "except" /\ ppc' = "headers")
              => (/\ attempts' = attempts + 1
                  /\ backoff' = Capped(attempts')
                  /\ offset' = offset))
         /\ ((ppc = "items" /\ ppc' = "headers") => attempts' = 0)
         /\ ((ppc = "except" /\ ppc' = "returned")
              => attempts' = max_attempts)
         /\ (ppc # "except"
              => (attempts' = attempts \/ attempts' = 0))]_vars

\* four failures on the first offset, the longest delay slept, then the page
\* was fetched and the counter is 0 again
C27_LongestDelayThenPage ==
  /\ ppc = "headers"
  /\ offset = page_sz
  /\ backoff = 16
  /\ attempts = 0
  /\ lastOutcome = "page"

\* C11: a failed page request (transport failure, error status, failed token
\* request) leaves the offset and the accumulated ids alone and the page is
\* asked for again at the same offset; the fifth failure in a row ends the
\* call, which returns the ids of the pages fetched so far.
C11_RetrySameOffsetThenGiveUp ==
  /\ [](/\ ppc = "except" => projects = FetchedBefore(offset)
        /\ (ppc \in {"request", "rerequest"}
            /\ lastOutcome \in {"failed", "unauthorized"})
           => offset = lastOffset)
  /\ [][ppc = "except" =>
          /\ offset' = offset
          /\ projects' = projects
          /\ attempts' = attempts + 1
          /\ attempts' < 5 => (ppc' = "headers" /\ returned' = <<>>)
          /\ attempts' >= 5 =>
               (/\ ppc' = "returned"
                /\ returned' = Result(FetchedBefore(offset), limit))]_vars

\* two pages were fetched, then five requests in a row failed
C11_GaveUpAfterTwoPages ==
  /\ ppc = "returned"
  /\ attempts = 5
  /\ lastOutcome = "failed"
  /\ offset = 2 * page_sz
  /\ returned = <<11, 12, 13, 21, 22>>

\* C12: every request is sent at offset 0 when it is the first, at the
\* offset of the request before it when that one failed or was answered 401,
\* and page_sz further when that one brought a non-empty page; the call has
\* returned once a page was empty or the limit was reached, sends nothing
\* after that, and returns at most limit ids.
C12_OffsetsAndStop ==
  /\ [](/\ ppc \in {"request", "rerequest"} =>
             offset = (IF lastOffset = NoOffset THEN 0
                       ELSE IF lastOutcome = "page" THEN lastOffset + page_sz
                       ELSE lastOffset)
        /\ lastOffset <= offset
        /\ lastOutcome = "empty" => ppc = "returned"
        /\ (lastOutcome = "page" /\ LimitReached(projects, limit))
             => ppc = "returned"
        /\ (ppc = "returned" /\ limit # None) => Len(returned) <= limit.n)
  /\ [][ppc = "returned" => UNCHANGED pageVars]_vars

\* a call with limit 4 that was retried and stopped in the second page
C12_CapReachedInSecondPage ==
  /\ ppc = "returned"
  /\ limit = IntV(4)
  /\ failed
  /\ lastOffset = page_sz
  /\ returned = <<11, 12, 13, 21>>

\* C13: the call returns; and when the server's pages are non-empty and
\* decreasing in size, no request failed and no limit was given, it returns
\* the items of all the pages in order, each once.
C13_TerminatesWithAllItems ==
  /\ <>(ppc = "returned")
  /\ []((/\ ppc = "returned"
         /\ DecreasingPages
         /\ ~failed
         /\ limit = None)
        => returned = FirstPages(Len(pages)))

\* three pages of 3, 2 and 1 items, then the empty page
C13_ThreePagesReturned ==
  /\ ppc = "returned"
  /\ ~failed
  /\ limit = None
  /\ lastOffset = 3 * page_sz
  /\ returned = <<11, 12, 13, 21, 22, 31>>

(***************************************************************************)
(* The pure helpers, each called once on arguments drawn from a bounded    *)
(* set: args holds the arguments (args.f names the helper), ret the value  *)
(* returned.                                                               *)
(***************************************************************************)
\* ---- _pick_vital(vitals, friendly_names, fieldname_prefixes, want_types)
\* Texts are Python strings; the string methods are given on the texts the
\* bounded inputs are made of, every other text being left as it is.
\* s.strip()
Strip(t) ==
  CASE t = " Total Meds"   -> "Total Meds"
    [] t = "TOTAL MEDS : " -> "TOTAL MEDS :"
    [] t = "total meds "   -> "total meds"
    [] t = " Ann "         -> "Ann"
    [] OTHER               -> t

\* re.sub(r"[:\s]+$", "", s)
DropTrailing(t) ==
  CASE t = "total meds:"   -> "total meds"
    [] t = "TOTAL MEDS :"  -> "TOTAL MEDS"
    [] t = "TOTAL MEDS : " -> "TOTAL MEDS"
    [] t = "total meds "   -> "total meds"
    [] OTHER               -> t

\* s.lower()
Lower(t) ==
  CASE t = "Total Meds"  -> "total meds"
    [] t = " Total Meds" -> " total meds"
    [] t = "TOTAL MEDS"  -> "total meds"
    [] t = "Meds"        -> "meds"
    [] t = "DOL"         -> "dol"
    [] t = "Currency"    -> "currency"
    [] t = "Text"        -> "text"
    [] t = "Date"        -> "date"
    [] OTHER             -> t

\* pref.rstrip("*")
RStripStar(t) ==
  CASE t = "totalmeds*" -> "totalmeds"
    [] t = "*"          -> ""
    [] OTHER            -> t

\* fname.startswith(pref)
StartsWith(fname, pref) ==
  \/ pref = ""
  \/ fname = pref
  \/ <<fname, pref>> \in { <<"totalmeds12", "totalmeds">>,
                           <<"totalmeds3", "totalmeds">>,
                           <<"dol3", "dol">> }

\* it.get(key) or ""
TextOf(v) == IF v.k = "str" THEN v.s ELSE ""

\* one item of a project's vitals
Vital(label, name, type) ==
  [friendlyName |-> label, fieldName |-> name, fieldType |-> type]

Vitals ==
  { Vital(Str("total meds:"), Str("other1"), Str("Text")),
    Vital(Str("TOTAL MEDS : "), Str("other2"), Str("Currency")),
    Vital(Str("Meds"), Str("totalmeds12"), Str("currency")),
    Vital(None, Str("totalmeds3"), Missing),
    Vital(Str("DOL"), Str("dol3"), Str("Date")) }

\* the targets of line 112
Targets(friendly_names) ==
  { Lower(Strip(DropTrailing(friendly_names[i]))) :
      i \in 1..Len(friendly_names) }

\* lines 114-116: the item's label is one of the targets
LabelHit(it, friendly_names) ==
  Lower(DropTrailing(Strip(TextOf(it.friendlyName)))) \in Targets(friendly_names)

\* lines 121-125: the item's machine name starts with one of the prefixes
PrefixHit(it, fieldname_prefixes) ==
  \E i \in 1..Len(fieldname_prefixes) :
    StartsWith(TextOf(it.fieldName), RStripStar(fieldname_prefixes[i]))

\* the items matched by machine name come first
PrefixFirst(labelled, prefixed) ==
  IF prefixed # <<>> THEN prefixed ELSE labelled

\* if not candidates and fieldname_prefixes: the items matched by machine
\* name are candidates only when no item was matched by label
Candidates(labelled, prefixed) ==
  IF labelled # <<>> THEN labelled ELSE prefixed

\* it.get("fieldType") is one of want_types, whatever the case
TypeHit(it, want_types) ==
  Lower(TextOf(it.fieldType)) \in
    { Lower(want_types[i]) : i \in 1..Len(want_types) }

\* the type filter is kept when nothing passes it
StrictNarrow(candidates, want_types) ==
  IF want_types # <<>>
  THEN SelectSeq(candidates, LAMBDA it : TypeHit(it, want_types))
  ELSE candidates

\* lines 127-131
Narrow(candidates, want_types) ==
  IF want_types # <<>> /\ candidates # <<>>
  THEN LET typed == SelectSeq(candidates, LAMBDA it : TypeHit(it, want_types))
       IN  IF typed # <<>> THEN typed ELSE candidates
  ELSE candidates

\* None and the empty list are the same to the helper: both are <<>> here
_pick_vital(vitals, friendly_names, fieldname_prefixes, want_types) ==
  LET labelled == IF friendly_names # <<>>
                  THEN SelectSeq(vitals, LAMBDA it : LabelHit(it, friendly_names))
                  ELSE <<>>
      prefixed == IF fieldname_prefixes # <<>>
                  THEN SelectSeq(vitals, LAMBDA it : PrefixHit(it, fieldname_prefixes))
                  ELSE <<>>
      candidates == Narrow(Candidates(labelled, prefixed), want_types)
  IN  IF candidates # <<>> THEN candidates[1] ELSE None

MaxVitals == 3

VitalLists == UNION { [1..n -> Vitals] : n \in 0..MaxVitals }

PickVitalCalls ==
  [ f : {"_pick_vital"},
    vitals : VitalLists,
    friendly_names : {<<>>, <<"Total Meds">>, <<"Medical Total", " Total Meds">>},
    fieldname_prefixes : {<<>>, <<"totalmeds*">>},
    want_types : {<<>>, <<"Currency">>} ]

\* ---- detect_changes(current_data, new_data) on rows of one field: an
\* amount as the database returns it (None, Decimal) against one as new_data
\* holds it (None, float), a text against a text
DetectCalls ==
  { [f |-> "detect_changes",
     current |-> [settled_amount |-> o], new |-> [settled_amount |-> n]] :
      o \in {None, Dec(0), Dec(7000)}, n \in {None, Float(0), Float(7000)} }
  \cup
  { [f |-> "detect_changes",
     current |-> [negotiator |-> o], new |-> [negotiator |-> n]] :
      o \in {None, NA, Str("Ann"), Str(" Ann ")},
      n \in {None, NA, Str("Ann"), Str(" Ann ")} }

\* ---- _parse_currency_decimal(v) of filevine_loader_incident_Meds_update.py,
\* and the expression load_project of filevine_loader_withTimeStamp.py parses
\* an amount with
\* str(v).strip().replace(",", "").replace("$", "")
CurrencyDigits(t) ==
  CASE t = "$19,970.00" -> "19970.00"
    [] t = " 19,970 "   -> "19970"
    [] OTHER            -> t

\* a Decimal that is not a number
NaN == [k |-> "dec", s |-> "NaN", n |-> 0]

\* Decimal(s): the number in thousandths, NaN, or InvalidOperation
DecimalOf(t) ==
  CASE t = "19970.00" -> Dec(19970000)
    [] t \in NumberTexts -> Dec(TextNumber(t))
    [] t = "NaN" -> NaN
    [] OTHER -> Error("InvalidOperation")

\* d.quantize(Decimal("0.01"), rounding=ROUND_HALF_UP): a NaN stays a NaN
Quantize(d) == IF d = NaN THEN NaN ELSE Dec(((d.n + 5) \div 10) * 10)

_parse_currency_decimal(v) ==
  IF v \in {None, Str(""), NA, Str("None")} THEN None
  ELSE IF v.k = "dec" THEN Quantize(v)
  ELSE IF v.k \in {"float", "int"} THEN Quantize(ToFloat(v))
  ELSE LET d == DecimalOf(CurrencyDigits(Strip(PyStr(v))))
       IN  IF d.k = "error" THEN None ELSE Quantize(d)

CurrencyInputs ==
  { None, NA, Str(""), Str("$19,970.00"), Str(" 19,970 "), Str("19970"),
    Str("19970.004"), Str("19970.005"), Str("0"), Str("abc"), Str("NaN"),
    Float(19970000), Dec(19970004) }

CurrencyCalls == [f : {"_parse_currency_decimal", "float"}, v : CurrencyInputs]

\* ---- mmddyyyy_to_iso and format_date of
\* filevine_loader_incident_Meds_update.py
Pad4(x) == IF x < 1000 THEN "0" \o Pad3(x) ELSE ToString(x)

\* the dates the texts of the calls spell
CallDates ==
  Dates \cup {[y |-> 1999, m |-> 12, d |-> 31], [y |-> 999, m |-> 1, d |-> 5]}

\* the MM-DD-YYYY text of a date and its YYYY-MM-DD text
MmDdYyyy(dt) == Pad2(dt.m) \o "-" \o Pad2(dt.d) \o "-" \o Pad4(dt.y)

YyyyMmDd(dt) == Pad4(dt.y) \o "-" \o Pad2(dt.m) \o "-" \o Pad2(dt.d)

\* m, d, y = s.split("-") and f"{y}-{m.zfill(2)}-{d.zfill(2)}", None when
\* the split does not give three parts
SplitAndRejoin(t) ==
  IF \E dt \in CallDates : t = MmDdYyyy(dt)
  THEN Str(YyyyMmDd(CHOOSE dt \in CallDates : t = MmDdYyyy(dt)))
  ELSE IF t = "1-5-2024" THEN Str("2024-01-05")
  ELSE None

mmddyyyy_to_iso_meds(v) ==
  IF ~Truthy(v) \/ v = NA THEN None ELSE SplitAndRejoin(v.s)

\* dt.strftime("%m-%d-%Y"): %Y of a year below 1000 is written with four
\* digits or without leading zeros, as the C library of the build does
Strftime(dt, padded) ==
  Pad2(dt.m) \o "-" \o Pad2(dt.d) \o "-" \o
    (IF padded THEN Pad4(dt.y) ELSE ToString(dt.y))

\* datetime.fromisoformat(datestr[:10]), NoDate when it raises
FromIso(t) ==
  IF \E dt \in CallDates : t = YyyyMmDd(dt)
  THEN CHOOSE dt \in CallDates : t = YyyyMmDd(dt)
  ELSE NoDate

format_date_meds(v, padded) ==
  IF ~Truthy(v) THEN NA
  ELSE IF FromIso(v.s) # NoDate THEN Str(Strftime(FromIso(v.s), padded))
  ELSE NA

RoundTripCalls ==
  [f : {"round_trip"},
   s : {MmDdYyyy(dt) : dt \in CallDates} \cup {"1-5-2024", "2024/01/05"}]

Calls == PickVitalCalls \cup DetectCalls \cup CurrencyCalls \cup RoundTripCalls

InitCalls ==
  /\ PassIdle
  /\ FetchIdle
  /\ PageIdle
  /\ RunIdle
  /\ upstream = [p \in Pids |-> BasePayload]
  /\ store = [p \in Pids |-> NoData]
  /\ fn = "none"
  /\ args \in Calls
  /\ ret = None

\* the call of args.f that leaves r
Called(r) ==
  /\ fn = "none"
  /\ fn' = args.f
  /\ ret' = r
  /\ UNCHANGED args
  /\ UNCHANGED <<loaderVars, fetchVars, pageVars>>
  /\ UNCHANGED runVars

CallPickVital ==
  /\ args.f = "_pick_vital"
  /\ Called(_pick_vital(args.vitals, args.friendly_names,
                        args.fieldname_prefixes, args.want_types))

CallDetectChanges ==
  /\ args.f = "detect_changes"
  /\ Called(detect_changes(args.current, args.new))

CallParseCurrency ==
  /\ args.f = "_parse_currency_decimal"
  /\ Called(_parse_currency_decimal(args.v))

\* float(x) if x not in [None, "N/A"] else None
CallFloat ==
  /\ args.f = "float"
  /\ Called(FloatUnlessNA(args.v))

\* format_date(mmddyyyy_to_iso(s))
CallRoundTrip ==
  /\ args.f = "round_trip"
  /\ \E padded \in BOOLEAN :
       Called(format_date_meds(mmddyyyy_to_iso_meds(Str(args.s)), padded))

NextCalls ==
  \/ CallPickVital
  \/ CallDetectChanges
  \/ CallParseCurrency
  \/ CallFloat
  \/ CallRoundTrip

SpecCalls == InitCalls /\ [][NextCalls]_vars

(***************************************************************************)
(* Properties of _pick_vital.                                              *)
(***************************************************************************)
\* the labels that read "total meds" when case, trailing colons and
\* surrounding whitespace are ignored
TotalMedsLabels ==
  {"Total Meds", " Total Meds", "total meds:", "TOTAL MEDS : ", "total meds "}

\* the item carries a label that was asked for
LabelMatched(it) ==
  /\ it.friendlyName.k = "str"
  /\ it.friendlyName.s \in TotalMedsLabels
  /\ \E i \in 1..Len(args.friendly_names) :
       args.friendly_names[i] \in TotalMedsLabels

\* the item's machine name begins with a prefix that was asked for
PrefixMatched(it) ==
  /\ args.fieldname_prefixes # <<>>
  /\ it.fieldName.k = "str"
  /\ it.fieldName.s \in {"totalmeds12", "totalmeds3"}

\* the items of the tier the result is taken from
TierOfCall ==
  IF \E i \in 1..Len(args.vitals) : LabelMatched(args.vitals[i])
  THEN SelectSeq(args.vitals, LabelMatched)
  ELSE SelectSeq(args.vitals, PrefixMatched)

\* the item's type is one that was asked for
TypeAccepted(it) ==
  /\ args.want_types # <<>>
  /\ it.fieldType.k = "str"
  /\ it.fieldType.s \in {"Currency", "currency"}

\* C14: when an item of the list carries a requested label, the item that
\* _pick_vital returns carries one, wherever the items matched by machine
\* name stand; an item matched by machine name only is returned only when no
\* item carries a requested label.
C14_LabelBeforePrefix ==
  fn = "_pick_vital" =>
    /\ (\E i \in 1..Len(args.vitals) : LabelMatched(args.vitals[i]))
         => (ret # None /\ LabelMatched(ret))
    /\ (ret # None /\ ~LabelMatched(ret))
         => /\ PrefixMatched(ret)
            /\ \A i \in 1..Len(args.vitals) : ~LabelMatched(args.vitals[i])

\* a label-matched item was returned although an item matched by machine
\* name stands before it in the list
C14_LabelAfterPrefixReturned ==
  /\ fn = "_pick_vital"
  /\ Len(args.vitals) >= 2
  /\ PrefixMatched(args.vitals[1])
  /\ ~LabelMatched(args.vitals[1])
  /\ ret # None
  /\ LabelMatched(ret)

\* C15: with a type constraint, the result is the first item of the tier
\* with an accepted type when the tier has one, and the first item of the
\* tier when it has none (whatever the types of the lower tier's items);
\* when the tier is empty the result is None.
C15_TypeNarrowing ==
  fn = "_pick_vital" =>
    LET typed == SelectSeq(TierOfCall, TypeAccepted)
    IN  /\ typed # <<>> => ret = typed[1]
        /\ (typed = <<>> /\ TierOfCall # <<>>) => ret = TierOfCall[1]
        /\ TierOfCall = <<>> => ret = None

\* the type constraint was dropped: the label tier has no item of an
\* accepted type, an item matched by machine name has one, and the first
\* label-matched item was returned
C15_ConstraintDropped ==
  /\ fn = "_pick_vital"
  /\ args.want_types # <<>>
  /\ ret # None
  /\ LabelMatched(ret)
  /\ ~TypeAccepted(ret)
  /\ \E i \in 1..Len(args.vitals) :
       PrefixMatched(args.vitals[i]) /\ TypeAccepted(args.vitals[i])

(***************************************************************************)
(* Properties of detect_changes.                                           *)
(***************************************************************************)
\* detect_changes was called on rows that hold the field
Compares(field) == fn = "detect_changes" /\ field \in DOMAIN args.current

\* an amount that is present and zero
IsZero(v) == v.k \in {"float", "dec", "int"} /\ v.n = 0

\* two texts the differ is to take for the same: both unknown (None or the
\* sentinel), or equal once the surrounding whitespace is dropped
SameText(o, n) ==
  \/ o \in {None, NA} /\ n \in {None, NA}
  \/ o.k = "str" /\ n.k = "str" /\ Strip(o.s) = Strip(n.s)

\* C17: for an amount, None against a present 0 (either way round) is
\* reported as a change, and None against None is not.
C17_AbsenceIsNotZero ==
  Compares("settled_amount") =>
    LET o == args.current.settled_amount
        n == args.new.settled_amount
    IN  /\ ((o = None /\ IsZero(n)) \/ (IsZero(o) /\ n = None))
             => "settled_amount" \in DOMAIN ret
        /\ (o = None /\ n = None) => "settled_amount" \notin DOMAIN ret

\* C18: for a text, None against the sentinel (either way round) and two
\* values that differ in surrounding whitespace only are not reported.
C18_TextComparedTrimmed ==
  Compares("negotiator") =>
    (SameText(args.current.negotiator, args.new.negotiator)
       => "negotiator" \notin DOMAIN ret)

(***************************************************************************)
(* Properties of the parsers.                                              *)
(***************************************************************************)
\* C19: the three spellings of 19970 parse to 19970.00, a third decimal
\* digit is rounded half-up, and None, "", "N/A" and texts that spell no
\* number give None, whichever of the two parsers is used.
C19_CurrencyParsing ==
  fn \in {"_parse_currency_decimal", "float"} =>
    /\ args.v \in {Str("$19,970.00"), Str("19970"), Str("19970.004")}
         => (ret.k \in {"dec", "float"} /\ ret.s = "" /\ ret.n = 19970000)
    /\ args.v = Str("19970.005")
         => (ret.k \in {"dec", "float"} /\ ret.s = "" /\ ret.n = 19970010)
    /\ args.v \in {None, NA, Str(""), Str("abc"), Str("NaN")} => ret = None

\* the MM-DD-YYYY texts that spell a date
ValidMmDdYyyy == {MmDdYyyy(dt) : dt \in CallDates}

\* C20: for every valid MM-DD-YYYY text s, format_date(mmddyyyy_to_iso(s))
\* is s.
C20_RoundTrip ==
  (fn = "round_trip" /\ args.s \in ValidMmDdYyyy) => ret = Str(args.s)

(***************************************************************************)
(* The batch scripts: the __main__ blocks of filevine_loader_withTimeStamp  *)
(* and filevine_loader_old, main of filevine_loader_nego_update and         *)
(* update_core_fields_batch of filevine_loader_incident_Meds_update.  The   *)
(* nested loops over the batches go through project_ids in order; one pass  *)
(* over one id is one step, whose course is drawn from what the pass can    *)
(* meet.                                                                    *)
(***************************************************************************)
Variants == {"withTimeStamp", "old", "nego", "incident"}

\* the lists a run is given
IdLists == {<<>>, <<1>>, <<1, 2>>, <<2, 1>>}

Ids == {1, 2}

\* what the request for the record itself is answered: the record, 404, or
\* another failure (transport, 401 twice, 5xx)
Answers == {"ok", "not_found", "error"}

\* what else the pass meets: rows equal to the snapshot, rows that differ,
\* or an exception (database, malformed value)
Courses == {"clean", "dirty", "exception"}

\* the scripts with a retry loop over failed_projects
HasRetry(v) == v \in {"old", "nego"}

\* how the pass over one id ends: "updated" (rows written), "unchanged",
\* "skipped" (load_project's return after "Could not fetch"), "failed" (an
\* exception out of load_project, success False out of the others)
PassOutcome(v, answer, course) ==
  CASE course = "exception" -> "failed"
    [] v = "withTimeStamp" ->
         IF answer # "ok" THEN "skipped"
         ELSE IF course = "dirty" THEN "updated" ELSE "unchanged"
    [] v = "old" -> IF answer # "ok" THEN "skipped" ELSE "updated"
    [] v = "nego" ->
         IF answer # "ok" THEN "failed"
         ELSE IF course = "dirty" THEN "updated" ELSE "unchanged"
    [] OTHER -> IF course = "dirty" THEN "updated" ELSE "unchanged"

NoCount == 0 - 1

\* the counters after a pass that ended with ending
Counted(v, c, ending) ==
  CASE v = "withTimeStamp" -> c
    [] v = "old" ->
         IF ending # "failed"
         THEN [c EXCEPT !.successful = @ + 1] ELSE c
    [] v = "nego" ->
         IF ending = "updated" THEN [c EXCEPT !.updated = @ + 1]
         ELSE IF ending = "failed" THEN c
         ELSE [c EXCEPT !.unchanged = @ + 1]
    [] OTHER ->
         IF ending = "failed" THEN [c EXCEPT !.failed = @ + 1]
         ELSE IF ending = "updated" THEN [c EXCEPT !.updated = @ + 1]
         ELSE [c EXCEPT !.unchanged = @ + 1]

\* the list of failed ids after a pass over pid that ended with ending
Appended(v, failures, pid, ending) ==
  IF ending = "failed" /\ v # "incident" THEN Append(failures, pid)
  ELSE failures

\* a failure ends the loop
StopsTheLoop(i, n) == n + 1

\* the loop goes on with the next id, whatever the pass did
AfterPass(i, n) == i + 1

InitBatch ==
  /\ PassIdle
  /\ FetchIdle
  /\ PageIdle
  /\ CallIdle
  /\ WorkersIdle
  /\ upstream = [p \in Pids |-> BasePayload]
  /\ store = [p \in Pids |-> NoData]
  /\ variant \in Variants
  /\ project_ids \in IdLists
  /\ bpc = "start"
  /\ bi = 1
  /\ failed_projects = <<>>
  /\ retry_failed = Unbound
  /\ counts = [updated |-> 0, unchanged |-> 0, failed |-> 0, successful |-> 0]
  /\ runs = [id \in Ids |-> <<>>]
  /\ report = NoReport
  /\ writes = [id \in Ids |-> 0]

\* the pass over pid: what it meets is drawn, its end is recorded
Pass(pid, ending, answer, course) ==
  /\ runs' = [runs EXCEPT ![pid] =
                Append(@, [answer |-> answer, course |-> course,
                           ending |-> ending])]
  /\ writes' = [writes EXCEPT ![pid] = IF ending = "updated" THEN @ + 1 ELSE @]
  /\ counts' = Counted(variant, counts, ending)

\* if not project_ids: return, in main of nego_update and in
\* update_core_fields_batch
RunStart ==
  /\ bpc = "start"
  /\ bpc' = IF project_ids = <<>> /\ variant \in {"nego", "incident"}
            THEN "returned" ELSE "first"
  /\ UNCHANGED <<variant, project_ids, bi, failed_projects, retry_failed,
                 counts, runs, report, writes>>
  /\ UNCHANGED <<loaderVars, fetchVars, pageVars, callVars, workerVars>>

\* one round of the loop over project_ids
FirstPass ==
  /\ bpc = "first"
  /\ bi <= Len(project_ids)
  /\ \E answer \in Answers, course \in Courses :
       LET pid == project_ids[bi]
           ending == PassOutcome(variant, answer, course)
       IN  /\ Pass(pid, ending, answer, course)
           /\ failed_projects' = Appended(variant, failed_projects, pid, ending)
  /\ bi' = AfterPass(bi, Len(project_ids))
  /\ UNCHANGED <<variant, project_ids, bpc, retry_failed, report>>
  /\ UNCHANGED <<loaderVars, fetchVars, pageVars, callVars, workerVars>>

\* the loop over project_ids is left; if failed_projects: retry_failed = []
FirstDone ==
  /\ bpc = "first"
  /\ bi > Len(project_ids)
  /\ IF HasRetry(variant) /\ failed_projects # <<>>
     THEN /\ retry_failed' = <<>>
          /\ bpc' = "retry"
     ELSE /\ bpc' = "report"
          /\ UNCHANGED retry_failed
  /\ bi' = 1
  /\ UNCHANGED <<variant, project_ids, failed_projects, counts, runs, report,
                 writes>>
  /\ UNCHANGED <<loaderVars, fetchVars, pageVars, callVars, workerVars>>

\* one round of the loop over failed_projects
RetryPass ==
  /\ bpc = "retry"
  /\ bi <= Len(failed_projects)
  /\ \E answer \in Answers, course \in Courses :
       LET pid == failed_projects[bi]
           ending == PassOutcome(variant, answer, course)
       IN  /\ Pass(pid, ending, answer, course)
           /\ retry_failed' = Appended(variant, retry_failed, pid, ending)
  /\ bi' = AfterPass(bi, Len(failed_projects))
  /\ UNCHANGED <<variant, project_ids, bpc, failed_projects, report>>
  /\ UNCHANGED <<loaderVars, fetchVars, pageVars, callVars, workerVars>>

RetryDone ==
  /\ bpc = "retry"
  /\ bi > Len(failed_projects)
  /\ bpc' = "report"
  /\ UNCHANGED <<variant, project_ids, bi, failed_projects, retry_failed,
                 counts, runs, report, writes>>
  /\ UNCHANGED <<loaderVars, fetchVars, pageVars, callVars, workerVars>>

\* the lines of the final report: printed is TRUE once the first is out,
\* a count that no line gives is NoCount, ids is the list of failed ids
\* printed (empty when none is)
Printed(updated, unchanged, loaded, nfailed, ids) ==
  [printed |-> TRUE, updated |-> updated, unchanged |-> unchanged,
   loaded |-> loaded, failed |-> nfailed, ids |-> ids]

\* the final report; in main of nego_update the line that prints
\* len(retry_failed) raises NameError when the name was never bound
Report ==
  /\ bpc = "report"
  /\ CASE variant = "withTimeStamp" ->
            /\ report' = Printed(counts.updated, counts.unchanged, NoCount,
                                 Len(failed_projects), failed_projects)
            /\ bpc' = "returned"
       [] variant = "old" ->
            /\ report' = Printed(NoCount, NoCount, counts.successful,
                                 IF retry_failed = Unbound THEN 0
                                 ELSE Len(retry_failed),
                                 IF retry_failed = Unbound THEN <<>>
                                 ELSE retry_failed)
            /\ bpc' = "returned"
       [] variant = "nego" ->
            IF retry_failed = Unbound
            THEN /\ report' = Printed(counts.updated, counts.unchanged,
                                      NoCount, NoCount, <<>>)
                 /\ bpc' = "crashed"
            ELSE /\ report' = Printed(counts.updated, counts.unchanged,
                                      NoCount, Len(retry_failed), retry_failed)
                 /\ bpc' = "returned"
       [] OTHER ->
            /\ report' = Printed(counts.updated, counts.unchanged, NoCount,
                                 counts.failed, <<>>)
            /\ bpc' = "returned"
  /\ UNCHANGED <<variant, project_ids, bi, failed_projects, retry_failed,
                 counts, runs, writes>>
  /\ UNCHANGED <<loaderVars, fetchVars, pageVars, callVars, workerVars>>

NextBatch ==
  \/ RunStart
  \/ FirstPass
  \/ FirstDone
  \/ RetryPass
  \/ RetryDone
  \/ Report

SpecBatch == InitBatch /\ [][NextBatch]_vars

(***************************************************************************)
(* Properties of a batch run.                                              *)
(***************************************************************************)
\* the run is over: it returned, or an exception ended it
RunEnded == bpc \in {"returned", "crashed"}

\* the ids of the list
Listed == {project_ids[i] : i \in 1..Len(project_ids)}

\* how the last pass over id ended
LastEnding(id) == runs[id][Len(runs[id])].ending

\* the number of listed ids whose last pass ended in one of the endings
Ended(endings) == Cardinality({id \in Listed : LastEnding(id) \in endings})

\* C21: when the run is over, every id whose first pass failed has had
\* exactly one more pass, every other id exactly one pass, and every id
\* whose retry failed too is in the list of failed ids of the final report.
C21_FailedRetriedOnce ==
  RunEnded =>
    \A id \in Listed :
      /\ runs[id][1].ending = "failed" => Len(runs[id]) = 2
      /\ runs[id][1].ending # "failed" => Len(runs[id]) = 1
      /\ (Len(runs[id]) = 2 /\ runs[id][2].ending = "failed")
           => (report.printed /\ \E i \in 1..Len(report.ids) : report.ids[i] = id)

\* C22: the final report of the loader's and the negotiation script's run
\* gives, as updated, unchanged and failed, the numbers of ids whose last
\* pass wrote something, found nothing to write, or failed; the three add up
\* to the number of ids.
C22_BucketsCount ==
  (bpc = "returned" /\ report.printed /\ variant \in {"withTimeStamp", "nego"})
  => /\ report.updated = Ended({"updated"})
     /\ report.unchanged = Ended({"unchanged", "skipped"})
     /\ report.failed = Ended({"failed"})
     /\ report.updated + report.unchanged + report.failed = Len(project_ids)

\* C24: a pass that meets no exception is skipped (nothing written, the id
\* not among the failed) when the record is not found upstream, and is not
\* skipped when the request for the record fails otherwise.
C24_OnlyNotFoundIsSkipped ==
  \A id \in Ids : \A i \in 1..Len(runs[id]) :
    runs[id][i].course # "exception" =>
      /\ runs[id][i].answer = "not_found" => runs[id][i].ending = "skipped"
      /\ runs[id][i].answer = "error" => runs[id][i].ending # "skipped"

\* the id of the pass that the next round of the loop makes
NextId == IF bpc = "first" THEN project_ids[bi] ELSE failed_projects[bi]

\* C25: a pass touches the rows of its own id only, a failed pass touches
\* none, and the loop goes on with the next id whatever the pass did: when
\* the loops are left every id of the list has had a pass.
C25_RecordIsolation ==
  /\ [][runs' # runs =>
          LET pid == NextId
          IN  /\ \A id \in Ids \ {pid} :
                   writes'[id] = writes[id] /\ runs'[id] = runs[id]
              /\ runs'[pid][Len(runs'[pid])].ending = "failed"
                   => writes' = writes
              /\ bi' = bi + 1
              /\ bpc' = bpc]_vars
  /\ [](bpc \in {"report", "returned", "crashed"}
          => (project_ids = <<>> \/ \A id \in Listed : runs[id] # <<>>))

\* the pass over the first id failed, the pass over the second wrote
C25_FailedThenWritten ==
  /\ bpc = "returned"
  /\ project_ids = <<1, 2>>
  /\ Len(runs[1]) = 1
  /\ runs[1][1].ending = "failed"
  /\ runs[2][1].ending = "updated"
  /\ writes[1] = 0
  /\ writes[2] = 1

\* C30: the run over a list that is not empty ends by returning, with its
\* final report printed down to the count of failed ids.
C30_ReachesSummary ==
  (RunEnded /\ project_ids # <<>>)
  => (bpc = "returned" /\ report.printed /\ report.failed # NoCount)

(***************************************************************************)
(* The queue: the webhook enqueues one job per event, and each worker runs *)
(* process_project -> load_project for the job it took.  The record is a   *)
(* single version number: remote is the record upstream, persisted the     *)
(* rows of the database, latest what the most recent upstream fetch saw.   *)
(***************************************************************************)
Workers == {1, 2}

\* the number of times the record changes upstream
MaxVersion == 2

NoJob == [pc |-> "none", current |-> 0, new |-> 0]

InitWorkers ==
  /\ PassIdle
  /\ FetchIdle
  /\ PageIdle
  /\ CallIdle
  /\ BatchIdle
  /\ upstream = [p \in Pids |-> BasePayload]
  /\ store = [p \in Pids |-> NoData]
  /\ jobs = [w \in Workers |-> NoJob]
  /\ remote = 0
  /\ persisted = 0
  /\ latest = 0

\* the record changes upstream
RemoteChange ==
  /\ remote < MaxVersion
  /\ remote' = remote + 1
  /\ UNCHANGED <<jobs, persisted, latest>>
  /\ UNCHANGED <<loaderVars, fetchVars, pageVars, callVars, batchVars>>

\* webhook -> enqueue_project(pid): a job for the event is queued, no matter
\* what is queued or running already, and worker w takes it
TakeJob(w) ==
  /\ jobs[w].pc = "none"
  /\ jobs' = [jobs EXCEPT ![w].pc = "read"]
  /\ UNCHANGED <<remote, persisted, latest>>
  /\ UNCHANGED <<loaderVars, fetchVars, pageVars, callVars, batchVars>>

\* with engine.connect(): the stored rows are read and the connection closed
WorkerRead(w) ==
  /\ jobs[w].pc = "read"
  /\ jobs' = [jobs EXCEPT ![w].pc = "fetch", ![w].current = persisted]
  /\ UNCHANGED <<remote, persisted, latest>>
  /\ UNCHANGED <<loaderVars, fetchVars, pageVars, callVars, batchVars>>

\* pj = fetch_json(...) or {}; if not pj: return; the helpers; new_data
WorkerFetch(w) ==
  /\ jobs[w].pc = "fetch"
  /\ \E ok \in BOOLEAN :
       IF ok
       THEN /\ jobs' = [jobs EXCEPT ![w].pc = "diff", ![w].new = remote]
            /\ latest' = remote
       ELSE /\ jobs' = [jobs EXCEPT ![w].pc = "done"]
            /\ UNCHANGED latest
  /\ UNCHANGED <<remote, persisted>>
  /\ UNCHANGED <<loaderVars, fetchVars, pageVars, callVars, batchVars>>

\* detect_changes against the rows read at the start; return when clean
WorkerDiff(w) ==
  /\ jobs[w].pc = "diff"
  /\ jobs' = [jobs EXCEPT ![w].pc =
                IF jobs[w].current = jobs[w].new THEN "done" ELSE "write"]
  /\ UNCHANGED <<remote, persisted, latest>>
  /\ UNCHANGED <<loaderVars, fetchVars, pageVars, callVars, batchVars>>

\* with engine.begin(): the UPSERTs of the dirty tables with the values
\* fetched, then COMMIT
WorkerWrite(w) ==
  /\ jobs[w].pc = "write"
  /\ persisted' = jobs[w].new
  /\ jobs' = [jobs EXCEPT ![w].pc = "done"]
  /\ UNCHANGED <<remote, latest>>
  /\ UNCHANGED <<loaderVars, fetchVars, pageVars, callVars, batchVars>>

NextWorkers ==
  \/ RemoteChange
  \/ \E w \in Workers : TakeJob(w)
  \/ \E w \in Workers : WorkerRead(w)
  \/ \E w \in Workers : WorkerFetch(w)
  \/ \E w \in Workers : WorkerDiff(w)
  \/ \E w \in Workers : WorkerWrite(w)

SpecWorkers == InitWorkers /\ [][NextWorkers]_vars

\* both reconciliations have finished
BothDone == \A w \in Workers : jobs[w].pc = "done"

\* C29: two reconciliations of one identifier running concurrently never
\* leave a stale state: once both have finished and upstream has not changed
\* since the later fetch, the persisted rows equal the snapshot of the most
\* recent upstream fetch
C29_NoStaleState ==
  (BothDone /\ remote = latest) => persisted = latest

(***************************************************************************)
(* Properties of a reconciliation pass.  They are stated on the state in   *)
(* which load_project has ended (pc = "done") and the pass's variables     *)
(* still hold what it read, computed and wrote.                            *)
(***************************************************************************)
\* C28: when the projects row exists and the row of a child entity is missing,
\* the reader returns an empty snapshot for the child, the pass reports the
\* child dirty and creates its row, so that after one successful pass the
\* record has a row in each of the seven tables
C28_MissingChildRowCreated ==
  (/\ pc = "done"
   /\ ~fault
   /\ result \in {"clean", "updated"}
   /\ pre["projects"] # NoRow)
    => \A t \in Tables : store[cur][t] # NoRow

\* process_project(project_id): the job fails (and the queue retries it) when
\* load_project raised; a call that returned, for whatever reason, is a
\* finished job
process_project(r) == IF r = "raised" THEN "failed" ELSE "finished"

\* C23: process_project raises whenever the reconciliation could not be
\* carried out, in particular when the upstream fetch of the record failed, so
\* that the job is marked failed and retried instead of completing
C23_FailedFetchFailsJob ==
  (pc = "done" /\ result = "not_fetched") => process_project(result) = "failed"

\* the pass ended by the code's own doing: no database failure, no interrupt
CodeEnded == pc = "done" /\ ~fault

\* the row the UPSERT of table t of this pass is to leave
Intended(t) == UpsertRow(t, UpdateData(cur, new_data, clock), pre[t], clock)

\* rows holds, in every table, exactly what payload u loads
InSync(rows, pid, u) ==
  \A t \in Tables :
     /\ rows[t] # NoRow
     /\ \A c \in Columns(t) \ {"last_updated"} :
          rows[t][c] = FullLoad(pid, u)[t][c]

\* the rows of the records that are in the store and not in the run
Untouched == [p \in Pids \ Batch |-> FullLoad(p, BasePayload)]

\* C1: idempotence.  A pass over a record whose previous pass ran to
\* completion, with the same upstream payload and nobody else writing in
\* between, finds no entity changed and executes no write.
C1_SecondRunIsClean ==
  (/\ pc \in {"txn", "done"}
   /\ lastPass[cur].result \in {"clean", "updated"}
   /\ fetched = lastPass[cur].payload)
  => (all_changes = NoChanges /\ order = <<>>)

\* C2: forced initial insert.  A pass for a record that has no row in any
\* table, whose upstream record was fetched, reports every one of the seven
\* entities dirty and writes them all.
C2_InitialInsertOfEveryEntity ==
  (CodeEnded /\ result \in {"clean", "updated"} /\ pre = NoData)
  => /\ DOMAIN all_changes = Tables
     /\ result = "updated"
     /\ \A t \in Tables : store[cur][t] # NoRow

\* C3: per-record atomicity.  At every point of a pass, the committed rows
\* of the record are all as before the pass unless the pass committed, and
\* then every dirty entity is as the pass intended and every other as
\* before; a pass whose write did not commit ends raised (or interrupted),
\* never as a success; the records outside the run keep their rows.
C3_AllOrNothing ==
  /\ pc # "idle" =>
       IF result = "updated"
       THEN \A t \in Tables :
              store[cur][t] = IF t \in DOMAIN all_changes THEN Intended(t)
                              ELSE pre[t]
       ELSE store[cur] = pre
  /\ (pc = "done" /\ all_changes # NoChanges /\ result # "updated")
       => result \in {"raised", "interrupted"}
  /\ \A p \in Pids \ Batch : store[p] = Untouched[p]

\* a write block failed at its second or a later statement, after a
\* statement that changed a row had been executed
C3_FailedAfterFirstStatement ==
  /\ pc = "done"
  /\ result = "raised"
  /\ Len(order) >= 2
  /\ Intended(order[1]) # pre[order[1]]

\* C4: after a committed write, every column of every written entity holds
\* the value of that column in the entity's own new snapshot (as the column
\* type stores it), also the columns last_offer and settlement_date whose
\* names two entities share.
C4_RowEqualsOwnSnapshot ==
  (pc = "done" /\ result = "updated")
  => \A t \in DOMAIN all_changes : \A c \in DOMAIN new_data[t] :
       store[cur][t][c] = Coerce(ColType(t, c), new_data[t][c])

\* C16: a pass that fetched a record whose Total Meds is not a number ends
\* without raising: the record does not fail for the one bad field.
C16_BadFieldDoesNotFailRecord ==
  (pc = "done" /\ ~fault /\ fetched.totalMeds = MalformedAmount)
  => result # "raised"

\* C5: the tables a pass writes are exactly its dirty tables: every dirty
\* entity is written and committed, every clean entity's row is untouched.
C5_WrittenIsDirty ==
  CodeEnded
  => /\ all_changes # NoChanges =>
          /\ result = "updated"
          /\ \A t \in DOMAIN all_changes : \E i \in 1..Len(order) : order[i] = t
     /\ \A i \in 1..Len(order) : order[i] \in DOMAIN all_changes
     /\ \A t \in Tables \ DOMAIN all_changes : store[cur][t] = pre[t]

\* C6: the record is persisted and in sync with the upstream payload of its
\* last pass, and then only settledAmount changes upstream: the next pass's
\* diff is exactly {negotiation: {settled_amount}} and only the negotiation
\* row is updated.
C6_OnlySettledAmount ==
  (/\ CodeEnded
   /\ result # "not_fetched"
   /\ lastPass[cur].result = "clean"
   /\ InSync(pre, cur, lastPass[cur].payload)
   /\ fetched # lastPass[cur].payload
   /\ fetched = [lastPass[cur].payload EXCEPT
                   !.settledAmount = fetched.settledAmount])
  => /\ DOMAIN all_changes = {"negotiation"}
     /\ DOMAIN all_changes["negotiation"] = {"settled_amount"}
     /\ result = "updated"
     /\ store[cur]["negotiation"] # pre["negotiation"]
     /\ \A t \in Tables \ {"negotiation"} : store[cur][t] = pre[t]

\* C7: referential integrity with parent-first ordering.  In every state,
\* committed or inside the open transaction, a child row exists only with
\* the projects row of the same record; in a pass the projects statement
\* is executed before every child statement.
C7_ParentFirst ==
  /\ \A p \in Pids : \A t \in ChildTables :
       /\ store[p][t] # NoRow => store[p]["projects"] # NoRow
       /\ TxnView(p)[t] # NoRow => TxnView(p)["projects"] # NoRow
  /\ \A i, j \in 1..Len(order) :
       (order[i] = "projects" /\ order[j] \in ChildTables) => i < j

\* a pass wrote the parent and a child and committed
C7_ParentAndChildWritten ==
  /\ pc = "done"
  /\ result = "updated"
  /\ "projects" \in DOMAIN all_changes
  /\ DOMAIN all_changes \cap ChildTables # {}

\* C8: last_updated of an entity row advances in a pass exactly when the
\* pass wrote the entity: a written entity carries the time of the pass, a
\* clean entity keeps its last_updated.
C8_LastUpdatedIffWritten ==
  pc = "done"
  => \A t \in Tables :
       IF result = "updated" /\ t \in DOMAIN all_changes
       THEN store[cur][t]["last_updated"] = IntV(clock)
       ELSE store[cur][t] = pre[t]

====
